---- MODULE Spec2Model ----
(***************************************************************************)
(* EquityLens backend: the ingestion queue (processing_queue.py), the      *)
(* startup requeue sweep (main.py) and the upload / reprocess handlers     *)
(* (routers/documents.py), as one state machine.                           *)
(*                                                                         *)
(* Everything runs on one asyncio event loop: code between two awaits is   *)
(* one atomic step.  asyncio.Lock is never contended here (no await is     *)
(* made while it is held), so `async with self._lock` never suspends.      *)
(* Persistence is taken to be reliable; the failures modelled are the      *)
(* embedding capability's and the page streamer's.                         *)
(***************************************************************************)
EXTENDS Naturals, Integers, Sequences, FiniteSets, TLC

\* ---------------------------------------------------------------- bounds
MaxDocs    == 2    \* document ids 1..MaxDocs
MaxAdds    == 2    \* add_document calls in one process lifetime
MaxWorkers == 2    \* _process_queue tasks alive at once
MaxFragment == 8   \* characters in one fragment of the generation stream
MaxMarkers  == 2   \* citation markers in one answer
MaxChunks   == 3   \* chunk rows of document 1
MaxTopK     == 2   \* top_k of a search
MaxSaved    == 2   \* chunk rows saved for one document while queries run
MaxQueries  == 2   \* queries on the vector store in flight at once
MaxYield    == 3   \* fragments with content in one streaming attempt
MaxUploads  == 3   \* upload requests in flight at once
MaxRows     == 4   \* rows of the documents table
MaxPages    == 3   \* pages of a document given to the chunker
MaxParagraphs == 2 \* paragraphs on one page
MaxRuns     == 2   \* analysis requests accepted

\* ------------------------------------------------------ program constants
EMBEDDING_BATCH_SIZE == 25
PARALLEL_BATCHES     == 3
max_pages            == 300
FLUSH_LEN            == 100   \* send_message_stream: `len(buffer) > 100`
TAIL_LEN             == 10    \* send_message_stream: `buffer[-10:]`
max_retries == 3

Docs    == 1..MaxDocs
Workers == 1..MaxWorkers

PENDING    == "pending"
PROCESSING == "processing"
COMPLETED  == "completed"
FAILED     == "failed"
ABSENT     == "absent"      \* no Document row with this id

\* A PDF as the ingestion job sees it: its page count, the number of chunks
\* create_chunks_from_page emits for each page, and whether text is left in
\* the running buffer after a page.
BigFile   == [page_count |-> 2,   per_page |-> 40, tail |-> TRUE]
SmallFile == [page_count |-> 1,   per_page |-> 3,  tail |-> TRUE]
HugeFile  == [page_count |-> 301, per_page |-> 40, tail |-> TRUE]
\* The file uploaded as document d.
FileOf(d) == CASE d % 3 = 1 -> BigFile
               [] d % 3 = 2 -> SmallFile
               [] OTHER     -> HugeFile

VARIABLES
    status,               \* Document.status, per document id (ABSENT: no row)
    error_message,        \* Document.error_message is set (TRUE) or None (FALSE)
    chunks,               \* document_chunks rows, one record per committed batch
    file,                 \* the PDF behind Document.file_path
    queue,                \* ProcessingQueue._queue
    processing,           \* ProcessingQueue._processing
    current_document_id,  \* ProcessingQueue._current_document_id (0: None)
    worker,               \* the _process_queue tasks and the locals of their job
    tasks,                \* _embed_and_save_batch coroutines not yet collected
    sweep,                \* delayed_requeue / requeue_pending_documents
    request,              \* the HTTP request being served (upload / reprocess)
    jobs                  \* log of add_document calls (ghost)

\* The services beside ingestion.  Each is one record, [pc |-> "off"] as
\* long as the service is not called.
VARIABLES
    chat                  \* chat_service.py: one request to send_message or
                          \* send_message_stream, its locals and the messages table

VARIABLES
    cite,                 \* chat_service.py: one call of
                          \* _extract_citations_from_response
    store                 \* vector_store.py: the chunk rows that carry an
                          \* embedding, _embedding_cache, and the last search

VARIABLES
    queries,              \* vector_store.py: the queries in flight at once,
                          \* each at one of its await points
    scx,                  \* scx_client.py: one call of chat_completion or
                          \* chat_completion_stream and its attempts
    uploads,              \* routers/documents.py: the upload requests in
                          \* flight and the documents table they write
    processor,            \* document_processor.py: one run of the chunker
                          \* over the pages of a document
    analysis              \* routers/analysis.py: the Analysis rows and the
                          \* background runs of extract_pois

\* The services the ingestion path never touches.
serviceVars == <<chat, cite, store, queries, scx, uploads, processor,
                 analysis>>

ingestVars == <<status, error_message, chunks, file, queue, processing,
                current_document_id, worker, tasks, sweep, request, jobs>>

\* What the actions of one service leave unchanged.
exceptChat      == <<ingestVars, cite, store, queries, scx, uploads, processor,
                    analysis>>
exceptCite      == <<ingestVars, chat, store, queries, scx, uploads, processor,
                    analysis>>
exceptStore     == <<ingestVars, chat, cite, queries, scx, uploads, processor,
                    analysis>>
exceptQueries   == <<ingestVars, chat, cite, store, scx, uploads, processor,
                    analysis>>
exceptScx       == <<ingestVars, chat, cite, store, queries, uploads, processor,
                    analysis>>
exceptUploads   == <<ingestVars, chat, cite, store, queries, scx, processor,
                    analysis>>
exceptProcessor == <<ingestVars, chat, cite, store, queries, scx, uploads,
                    analysis>>
exceptAnalysis  == <<ingestVars, chat, cite, store, queries, scx, uploads,
                    processor>>

vars == <<status, error_message, chunks, file, queue, processing,
          current_document_id, worker, tasks, sweep, request, jobs,
          serviceVars>>

\* ------------------------------------------------------------- helpers
IdleWorker ==
    [pc |-> "idle", job |-> 0, doc |-> 0, snap |-> "none", page |-> 0,
     buflo |-> 0, chunk_index |-> 0, overlap |-> FALSE, pending |-> <<>>,
     awaited |-> -1]

NoRequest == [kind |-> "none", doc |-> 0, snap |-> "none", err |-> FALSE]

\* A service that is not called.
Off == [pc |-> "off"]
LaterOff ==
    /\ queries = Off /\ scx = Off /\ uploads = Off /\ processor = Off
    /\ analysis = Off

Running(T)   == {t \in T : t.st = "running"}
TaskOf(T, j, lo) == CHOOSE t \in T : t.job = j /\ t.lo = lo
NewTask(s, lo, hi) ==
    [job |-> s.job, doc |-> s.doc, lo |-> lo, hi |-> hi, st |-> "running"]

\* The tasks some job still holds a reference to (pending_batches, or the
\* one it awaits).
Referenced(t) ==
    \E w \in Workers :
        /\ worker[w].job = t.job
        /\ \/ worker[w].awaited = t.lo
           \/ \E i \in 1..Len(worker[w].pending) : worker[w].pending[i] = t.lo

\* ProcessingQueue.add_document: append under the lock, then start a
\* _process_queue task unless one is marked as running.
add_document(document_id, by) ==
    /\ Len(jobs) < MaxAdds
    /\ queue' = Append(queue, [document_id |-> document_id, job |-> Len(jobs) + 1])
    /\ jobs' = Append(jobs, [doc |-> document_id, by |-> by, st |-> "queued",
                             result |-> "none", end_status |-> "none",
                             batch_failed |-> FALSE])
    /\ IF ~processing
         THEN \E w \in Workers :
                /\ worker[w].pc = "idle"
                /\ \A v \in Workers : v < w => worker[v].pc # "idle"
                /\ worker' = [worker EXCEPT ![w].pc = "created"]
         ELSE UNCHANGED worker

\* ------------------------------------------------------------ the worker
\* Mutant: the loop takes the entry appended last (pop instead of popleft).
LoopHead_Lifo(w) ==
    IF queue = <<>>
      THEN /\ processing' = FALSE
           /\ current_document_id' = 0
           /\ worker' = [worker EXCEPT ![w] = IdleWorker]
           /\ UNCHANGED <<queue, jobs>>
      ELSE /\ processing' = TRUE
           /\ queue' = SubSeq(queue, 1, Len(queue) - 1)
           /\ current_document_id' = queue[Len(queue)].document_id
           /\ worker' = [worker EXCEPT ![w] =
                 [IdleWorker EXCEPT !.pc = "load", !.job = queue[Len(queue)].job,
                                    !.doc = queue[Len(queue)].document_id]]
           /\ jobs' = [jobs EXCEPT ![queue[Len(queue)].job].st = "running"]

\* The head of the `while True` loop of _process_queue: leave when the queue
\* is empty, otherwise popleft and start the job (up to its first await).
LoopHead(w) ==
    IF queue = <<>>
      THEN /\ processing' = FALSE
           /\ current_document_id' = 0
           /\ worker' = [worker EXCEPT ![w] = IdleWorker]
           /\ UNCHANGED <<queue, jobs>>
      ELSE /\ processing' = TRUE
           /\ queue' = Tail(queue)
           /\ current_document_id' = Head(queue).document_id
           /\ worker' = [worker EXCEPT ![w] =
                 [IdleWorker EXCEPT !.pc = "load", !.job = Head(queue).job,
                                    !.doc = Head(queue).document_id]]
           /\ jobs' = [jobs EXCEPT ![Head(queue).job].st = "running"]

\* Mutant: _process_queue without `if self._processing: return`.
ProcessQueueStart_NoGuard(w) ==
    /\ worker[w].pc = "created"
    /\ LoopHead(w)
    /\ UNCHANGED <<status, error_message, chunks, file, tasks, sweep, request, serviceVars>>

\* A _process_queue task runs for the first time.
ProcessQueueStart(w) ==
    /\ worker[w].pc = "created"
    /\ IF processing
         THEN /\ worker' = [worker EXCEPT ![w] = IdleWorker]
              /\ UNCHANGED <<queue, processing, current_document_id, jobs>>
         ELSE LoopHead(w)
    /\ UNCHANGED <<status, error_message, chunks, file, tasks, sweep, request, serviceVars>>

\* Mutant: the loop goes on to the next job without awaiting the running
\* one to its end.
AfterSleep_NoAwait(w) ==
    /\ worker[w].pc \notin {"idle", "created"}
    /\ LoopHead(w)
    /\ UNCHANGED <<status, error_message, chunks, file, tasks, sweep, request, serviceVars>>

\* asyncio.sleep(1.0) is over: next iteration of the loop.
AfterSleep(w) ==
    /\ worker[w].pc = "sleep"
    /\ LoopHead(w)
    /\ UNCHANGED <<status, error_message, chunks, file, tasks, sweep, request, serviceVars>>

\* The job of worker w is over: gc.collect() and the pause.  The log keeps
\* how it ended and the status it left on the document.
EndJob(w, result, left) ==
    /\ worker' = [worker EXCEPT ![w] = [IdleWorker EXCEPT !.pc = "sleep"]]
    /\ jobs' = [jobs EXCEPT ![worker[w].job].st = "ended",
                            ![worker[w].job].result = result,
                            ![worker[w].job].end_status = left]

\* _process_document_streaming: the select returns.
LoadDocument(w) ==
    /\ worker[w].pc = "load"
    /\ IF status[worker[w].doc] = COMPLETED
         THEN EndJob(w, "skipped", status[worker[w].doc])
         ELSE /\ worker' = [worker EXCEPT ![w].pc = "mark_processing",
                                          ![w].snap = status[worker[w].doc]]
              /\ UNCHANGED jobs
    /\ UNCHANGED <<status, error_message, chunks, file, queue, processing,
                   current_document_id, tasks, sweep, request,
                   serviceVars>>

\* status = processing, error_message = None, commit.  (The ORM writes a
\* column only when its new value differs from the loaded one.)
MarkProcessing(w) ==
    /\ worker[w].pc = "mark_processing"
    /\ status' = IF worker[w].snap # PROCESSING
                   THEN [status EXCEPT ![worker[w].doc] = PROCESSING]
                   ELSE status
    /\ error_message' = [error_message EXCEPT ![worker[w].doc] = FALSE]
    /\ worker' = [worker EXCEPT ![w].pc = "page_count", ![w].snap = PROCESSING]
    /\ UNCHANGED <<chunks, file, queue, processing, current_document_id,
                   tasks, sweep, request, jobs, serviceVars>>
\* ---------------------------------------------------- _stream_and_embed
\* The code between two awaits runs without interruption; these operators
\* run a job from one suspension point to the next.  They take the job's
\* locals s and the task set T and give back both.
Blocked(s, T) == [w |-> s, tasks |-> T]

\* An exception leaves _stream_and_embed: pending_batches is dropped with
\* the frame; the tasks in it that still run keep running.
Raise(s, T) ==
    Blocked([s EXCEPT !.pc = "fail_commit", !.pending = <<>>, !.awaited = -1],
            {t \in T : t.job # s.job \/ t.st = "running"})

\* The final overlap text becomes the last chunk (lines 217-225).
FinalChunk(s, T) ==
    IF s.overlap
      THEN Blocked([s EXCEPT !.pc = "await_final", !.awaited = s.chunk_index],
                   T \cup {NewTask(s, s.chunk_index, s.chunk_index + 1)})
      ELSE Blocked([s EXCEPT !.pc = "complete"], T)

\* The chunks left in chunk_buffer are embedded inline (lines 213-215).
Remainder(s, T) ==
    IF s.buflo < s.chunk_index
      THEN Blocked([s EXCEPT !.pc = "await_remainder", !.awaited = s.buflo,
                             !.buflo = s.chunk_index],
                   T \cup {NewTask(s, s.buflo, s.chunk_index)})
      ELSE FinalChunk(s, T)

\* After the page loop: gather what is pending (lines 207-211).
AfterPages(s, T) ==
    IF s.pending # <<>>
      THEN Blocked([s EXCEPT !.pc = "gather"], T)
      ELSE Remainder(s, T)

\* Mutant: stream_pages without its page-count check.
TooLarge_Never(f) == FALSE

\* stream_pages refuses a file of more than max_pages pages: the check is
\* made when the generator is first advanced, before it yields a page.
TooLarge(f) == f.page_count > max_pages

RECURSIVE RunStream(_, _, _), AwaitOldest(_, _, _)

\* `await completed_task` (line 196): a finished task does not suspend.
AwaitOldest(f, s, T) ==
    LET t == TaskOf(T, s.job, s.awaited) IN
    CASE t.st = "running" -> Blocked([s EXCEPT !.pc = "await_oldest"], T)
      [] t.st = "done"    -> RunStream(f, [s EXCEPT !.pc = "batch", !.awaited = -1],
                                       T \ {t})
      [] t.st = "failed"  -> Raise(s, T)

\* The page loop (lines 170-205) and its inner batching loop (181-197).
RunStream(f, s, T) ==
    IF s.pc = "stream"
      THEN IF s.page = 0 /\ TooLarge(f)
             THEN Raise(s, T)              \* stream_pages raises ValueError
           ELSE IF s.page < f.page_count
             THEN RunStream(f, [s EXCEPT !.pc = "batch", !.page = @ + 1,
                                         !.chunk_index = @ + f.per_page,
                                         !.overlap = f.tail], T)
           ELSE AfterPages(s, T)
      ELSE IF s.chunk_index - s.buflo >= EMBEDDING_BATCH_SIZE
             THEN LET p1 == Append(s.pending, s.buflo)
                      T1 == T \cup {NewTask(s, s.buflo, s.buflo + EMBEDDING_BATCH_SIZE)}
                      s1 == [s EXCEPT !.buflo = @ + EMBEDDING_BATCH_SIZE]
                  IN  IF Len(p1) >= PARALLEL_BATCHES
                        THEN AwaitOldest(f, [s1 EXCEPT !.pending = Tail(p1),
                                                       !.awaited = Head(p1)], T1)
                        ELSE RunStream(f, [s1 EXCEPT !.pending = p1], T1)
             ELSE RunStream(f, [s EXCEPT !.pc = "stream"], T)

Finished(j, lo) == TaskOf(tasks, j, lo).st # "running"

JobStep(w, r) ==
    /\ worker' = [worker EXCEPT ![w] = r.w]
    /\ tasks' = r.tasks
    /\ UNCHANGED <<status, error_message, chunks, file, queue, processing,
                   current_document_id, sweep, request, jobs,
                   serviceVars>>

\* The page_count commit returns and _stream_and_embed runs to its first
\* suspension (lines 126-134).
StartStream(w) ==
    /\ worker[w].pc = "page_count"
    /\ JobStep(w, RunStream(file[worker[w].doc],
                            [worker[w] EXCEPT !.pc = "stream"], tasks))

\* The oldest batch, awaited at line 196, is over.
ResumeOldest(w) ==
    /\ worker[w].pc = "await_oldest"
    /\ Finished(worker[w].job, worker[w].awaited)
    /\ JobStep(w, AwaitOldest(file[worker[w].doc], worker[w], tasks))

\* asyncio.gather(*pending_batches, return_exceptions=True) returns: every
\* pending task is over, whatever its outcome (lines 208-211).
ResumeGather(w) ==
    LET s == worker[w] IN
    /\ s.pc = "gather"
    /\ \A i \in 1..Len(s.pending) : Finished(s.job, s.pending[i])
    /\ JobStep(w, Remainder([s EXCEPT !.pending = <<>>],
                            {t \in tasks : t.job # s.job \/ t.st = "running"}))

\* An inline `await self._embed_and_save_batch(...)` returns or raises
\* (lines 215 and 225).
ResumeInline(w) ==
    LET s == worker[w]
        t == TaskOf(tasks, s.job, s.awaited)
        s1 == [s EXCEPT !.awaited = -1]
    IN
    /\ s.pc \in {"await_remainder", "await_final"}
    /\ t.st # "running"
    /\ JobStep(w, IF t.st = "failed" THEN Raise(s, tasks)
                  ELSE IF s.pc = "await_remainder" THEN FinalChunk(s1, tasks \ {t})
                  ELSE Blocked([s1 EXCEPT !.pc = "complete"], tasks \ {t}))

\* status = completed, commit (lines 136-139).
MarkCompleted(w) ==
    /\ worker[w].pc = "complete"
    /\ status' = [status EXCEPT ![worker[w].doc] = COMPLETED]
    /\ EndJob(w, "completed", status'[worker[w].doc])
    /\ UNCHANGED <<error_message, chunks, file, queue, processing,
                   current_document_id, tasks, sweep, request,
                   serviceVars>>

\* Mutant: marking the document failed also clears its chunk rows.
FailCommit_DropsChunks(w) ==
    /\ worker[w].pc = "fail_commit"
    /\ status' = [status EXCEPT ![worker[w].doc] = FAILED]
    /\ error_message' = [error_message EXCEPT ![worker[w].doc] = TRUE]
    /\ chunks' = {r \in chunks : r.doc # worker[w].doc}
    /\ worker' = [worker EXCEPT ![w].pc = "mark_failed", ![w].snap = FAILED]
    /\ UNCHANGED <<file, queue, processing, current_document_id,
                   tasks, sweep, request, jobs, serviceVars>>

\* except Exception: status = failed, error_message, commit, raise
\* (lines 143-148).
FailCommit(w) ==
    /\ worker[w].pc = "fail_commit"
    /\ status' = [status EXCEPT ![worker[w].doc] = FAILED]
    /\ error_message' = [error_message EXCEPT ![worker[w].doc] = TRUE]
    /\ worker' = [worker EXCEPT ![w].pc = "mark_failed", ![w].snap = FAILED]
    /\ UNCHANGED <<chunks, file, queue, processing, current_document_id,
                   tasks, sweep, request, jobs, serviceVars>>

\* Mutant: the exception of a job is not caught inside the loop, so the
\* loop ends with it (the outer handler and the finally clause run).
mark_document_failed_EndsLoop(w) ==
    /\ worker[w].pc = "mark_failed"
    /\ status' = [status EXCEPT ![worker[w].doc] = FAILED]
    /\ error_message' = [error_message EXCEPT ![worker[w].doc] = TRUE]
    /\ worker' = [worker EXCEPT ![w] = IdleWorker]
    /\ jobs' = [jobs EXCEPT ![worker[w].job].st = "ended",
                            ![worker[w].job].result = "failed",
                            ![worker[w].job].end_status = FAILED]
    /\ processing' = FALSE
    /\ current_document_id' = 0
    /\ UNCHANGED <<chunks, file, queue, tasks, sweep, request, serviceVars>>

\* _process_queue catches the exception and calls _mark_document_failed.
mark_document_failed(w) ==
    /\ worker[w].pc = "mark_failed"
    /\ status' = [status EXCEPT ![worker[w].doc] = FAILED]
    /\ error_message' = [error_message EXCEPT ![worker[w].doc] = TRUE]
    /\ EndJob(w, "failed", status'[worker[w].doc])
    /\ UNCHANGED <<chunks, file, queue, processing, current_document_id,
                   tasks, sweep, request, serviceVars>>

\* ------------------------------------------------- _embed_and_save_batch
Settle(t, st) ==
    IF Referenced(t) THEN (tasks \ {t}) \cup {[t EXCEPT !.st = st]}
                     ELSE tasks \ {t}

\* create_embeddings returned and the batch's rows are committed.
EmbedAndSave(t) ==
    /\ t \in Running(tasks)
    /\ chunks' = chunks \cup {[doc |-> t.doc, lo |-> t.lo, hi |-> t.hi, job |-> t.job]}
    /\ tasks' = Settle(t, "done")
    /\ UNCHANGED <<status, error_message, file, queue, processing,
                   current_document_id, worker, sweep, request, jobs,
                   serviceVars>>

\* create_embeddings raised (after its retries): the batch raises.
EmbedFails(t) ==
    /\ t \in Running(tasks)
    /\ tasks' = Settle(t, "failed")
    /\ jobs' = [jobs EXCEPT ![t.job].batch_failed = TRUE]
    /\ UNCHANGED <<status, error_message, chunks, file, queue, processing,
                   current_document_id, worker, sweep, request,
                   serviceVars>>
\* ------------------------------------------------- routers/documents.py
\* upload_document: the Document row is committed (lines 96-111).  Ids are
\* handed out in increasing order.
UploadCommit(d) ==
    /\ request = NoRequest
    /\ Len(jobs) < MaxAdds
    /\ status[d] = ABSENT
    /\ \A e \in Docs : e < d => status[e] # ABSENT
    /\ status' = [status EXCEPT ![d] = PENDING]
    /\ file' = [file EXCEPT ![d] = FileOf(d)]
    /\ request' = [kind |-> "upload", doc |-> d, snap |-> PENDING, err |-> FALSE]
    /\ UNCHANGED <<error_message, chunks, queue, processing,
                   current_document_id, worker, tasks, sweep, jobs,
                   serviceVars>>

\* upload_document: the job is queued (line 131).
UploadEnqueue ==
    /\ request.kind = "upload"
    /\ add_document(request.doc, "upload")
    /\ request' = NoRequest
    /\ UNCHANGED <<status, error_message, chunks, file, processing,
                   current_document_id, tasks, sweep, serviceVars>>

\* reprocess_document: the select returns (lines 333-336).
ReprocessRead(d) ==
    /\ request = NoRequest
    /\ status[d] # ABSENT
    /\ Len(jobs) < MaxAdds \/ status[d] = COMPLETED
    /\ request' = [kind |-> "reprocess", doc |-> d, snap |-> status[d],
                   err |-> error_message[d]]
    /\ UNCHANGED <<status, error_message, chunks, file, queue, processing,
                   current_document_id, worker, tasks, sweep, jobs,
                   serviceVars>>

\* reprocess_document: a completed document is refused with a 400 (lines
\* 341-345).
ReprocessRefuse ==
    /\ request.kind = "reprocess"
    /\ request.snap = COMPLETED
    /\ request' = NoRequest
    /\ UNCHANGED <<status, error_message, chunks, file, queue, processing,
                   current_document_id, worker, tasks, sweep, jobs,
                   serviceVars>>

\* Mutant: reprocess_document without `document.error_message = None`.
ReprocessCommit_KeepsError ==
    /\ request.kind = "reprocess"
    /\ request.snap # COMPLETED
    /\ status' = IF request.snap # PENDING
                   THEN [status EXCEPT ![request.doc] = PENDING]
                   ELSE status
    /\ add_document(request.doc, "reprocess")
    /\ request' = NoRequest
    /\ UNCHANGED <<error_message, chunks, file, processing,
                   current_document_id, tasks, sweep, serviceVars>>

\* reprocess_document: reset to pending, commit, add to the queue (lines
\* 347-353).  The ORM writes a column only when its new value differs from
\* the one the select loaded.
ReprocessCommit ==
    /\ request.kind = "reprocess"
    /\ request.snap # COMPLETED
    /\ status' = IF request.snap # PENDING
                   THEN [status EXCEPT ![request.doc] = PENDING]
                   ELSE status
    /\ error_message' = IF request.err
                          THEN [error_message EXCEPT ![request.doc] = FALSE]
                          ELSE error_message
    /\ add_document(request.doc, "reprocess")
    /\ request' = NoRequest
    /\ UNCHANGED <<chunks, file, processing, current_document_id, tasks, sweep, serviceVars>>

\* ------------------------------------------------------------- main.py
RECURSIVE StuckDocs(_)
\* The rows the sweep's query returns, ordered by created_at, from id d on.
StuckDocs(d) ==
    IF d > MaxDocs THEN <<>>
    ELSE IF status[d] \in {PENDING, PROCESSING}
      THEN <<[doc |-> d, snap |-> status[d]]>> \o StuckDocs(d + 1)
      ELSE StuckDocs(d + 1)

\* delayed_requeue wakes after 2 s and requeue_pending_documents runs its
\* query (lines 84-85, 35-45).
SweepQuery ==
    /\ sweep.pc = "sleeping"
    /\ sweep' = [pc |-> IF StuckDocs(1) = <<>> THEN "done" ELSE "requeue",
                 list |-> StuckDocs(1),
                 found |-> {StuckDocs(1)[i].doc : i \in 1..Len(StuckDocs(1))}]
    /\ UNCHANGED <<status, error_message, chunks, file, queue, processing,
                   current_document_id, worker, tasks, request, jobs,
                   serviceVars>>

\* One turn of the loop over stuck_docs: reset to pending, commit, add to
\* the queue (lines 50-58).
SweepRequeue ==
    LET h == Head(sweep.list) IN
    /\ sweep.pc = "requeue"
    /\ status' = IF h.snap # PENDING
                   THEN [status EXCEPT ![h.doc] = PENDING]
                   ELSE status
    /\ add_document(h.doc, "sweep")
    /\ sweep' = [sweep EXCEPT !.list = Tail(sweep.list),
                              !.pc = IF Len(sweep.list) = 1 THEN "done" ELSE "requeue"]
    /\ UNCHANGED <<error_message, chunks, file, processing,
                   current_document_id, tasks, request, serviceVars>>

\* ------------------------------------------------------ chat_service.py
\* Text is a sequence of characters.
OPEN  == <<"<", "t", "h", "i", "n", "k", ">">>
CLOSE == <<"<", "/", "t", "h", "i", "n", "k", ">">>
Whitespace == {" ", "\n"}

\* `if x.strip():` -- x holds a character that is not whitespace.
NonBlank(x) == \E i \in 1..Len(x) : x[i] \notin Whitespace

\* Where pat first occurs in x (0: nowhere), and x.split(pat, 1) around it.
Find(x, pat) ==
    LET at == {i \in 1..(Len(x) + 1 - Len(pat)) :
                  SubSeq(x, i, i + Len(pat) - 1) = pat}
    IN  IF at = {} THEN 0 ELSE CHOOSE i \in at : \A k \in at : i <= k
Before(x, pat) == SubSeq(x, 1, Find(x, pat) - 1)
After(x, pat)  == SubSeq(x, Find(x, pat) + Len(pat), Len(x))

\* x[-n:]
LastChars(x, n) == SubSeq(x, IF Len(x) > n THEN Len(x) - n + 1 ELSE 1, Len(x))

\* One turn of the `async for chunk in ...` loop of send_message_stream
\* (lines 474-508) on the filter's locals f.
FilterChunk(f, chunk) ==
    LET b0     == f.buffer \o chunk
        opens  == Find(b0, OPEN) # 0 /\ ~f.in_thinking
        in1    == f.in_thinking \/ opens
        y1     == IF opens /\ NonBlank(Before(b0, OPEN))
                    THEN Before(b0, OPEN) ELSE <<>>
        b1     == IF opens THEN After(b0, OPEN) ELSE b0
        closes == in1 /\ Find(b1, CLOSE) # 0
        post   == After(b1, CLOSE)
        direct == ~closes /\ f.thinking_complete /\ ~in1
        flush  == /\ ~closes /\ ~direct
                  /\ ~in1 /\ ~f.thinking_complete /\ Len(b1) > FLUSH_LEN
                  /\ \A i \in 1..Len(LastChars(b1, TAIL_LEN)) :
                        LastChars(b1, TAIL_LEN)[i] # "<"
        y2     == IF closes THEN (IF NonBlank(post) THEN post ELSE <<>>)
                  ELSE IF direct THEN chunk
                  ELSE IF flush THEN b1
                  ELSE <<>>
        b2     == IF closes THEN (IF NonBlank(post) THEN <<>> ELSE post)
                  ELSE IF direct \/ flush THEN <<>>
                  ELSE b1
    IN  [buffer            |-> b2,
         in_thinking       |-> IF closes THEN FALSE ELSE in1,
         thinking_complete |-> f.thinking_complete \/ closes,
         yielded           |-> f.yielded \o y1 \o y2]

\* After the loop: `if buffer and not in_thinking: yield buffer` (510-512).
FinalFlush(f) ==
    IF f.buffer # <<>> /\ ~f.in_thinking
      THEN [f EXCEPT !.yielded = @ \o f.buffer]
      ELSE f

\* The filter's locals before the first fragment (lines 463-466).
FilterStart ==
    [buffer |-> <<>>, in_thinking |-> FALSE, thinking_complete |-> FALSE,
     yielded |-> <<>>]

RECURSIVE RemoveBlocks(_), LStrip(_), RStrip(_)
\* re.sub(r'<think>.*?</think>', '', text, flags=re.DOTALL)
RemoveBlocks(x) ==
    IF Find(x, OPEN) = 0 \/ Find(After(x, OPEN), CLOSE) = 0 THEN x
    ELSE Before(x, OPEN) \o RemoveBlocks(After(After(x, OPEN), CLOSE))
\* re.sub(r'\n{3,}', '\n\n', cleaned)
\* (of a run of three or more newlines the last two are kept)
CollapseNewlines(x) ==
    LET kept == {i \in 1..Len(x) :
                    ~(/\ i + 2 <= Len(x)
                      /\ x[i] = "\n" /\ x[i + 1] = "\n" /\ x[i + 2] = "\n")}
    IN  [j \in 1..Cardinality(kept) |->
            x[CHOOSE i \in kept : Cardinality({k \in kept : k <= i}) = j]]
LStrip(x) == IF x # <<>> /\ x[1] \in Whitespace THEN LStrip(Tail(x)) ELSE x
RStrip(x) == IF x # <<>> /\ x[Len(x)] \in Whitespace
               THEN RStrip(SubSeq(x, 1, Len(x) - 1)) ELSE x
strip_thinking_tags(text) == RStrip(LStrip(CollapseNewlines(RemoveBlocks(text))))

\* The user message is saved.  send_message_stream adds it and commits
\* (lines 356-364); send_message only adds it to the session (211-217).
SaveUserMessage ==
    /\ chat.pc = "start"
    /\ chat' = IF chat.path = "stream"
                 THEN [chat EXCEPT !.pc = "generating",
                         !.messages = Append(@, [role |-> "user", content |-> <<"q">>])]
                 ELSE [chat EXCEPT !.pc = "generating",
                         !.session_new = Append(@, [role |-> "user", content |-> <<"q">>])]
    /\ UNCHANGED exceptChat

\* send_message_stream: the generation stream delivers its next fragment,
\* of n characters (lines 468-508).
Receive(n) ==
    LET chunk == SubSeq(chat.raw_response, Len(chat.full_response) + 1,
                        Len(chat.full_response) + n)
        g == FilterChunk(chat, chunk)
    IN
    /\ chat.pc = "generating" /\ chat.path = "stream"
    /\ Len(chat.full_response) + n <= Len(chat.raw_response)
    /\ chat' = [chat EXCEPT !.full_response = @ \o chunk,
                            !.buffer = g.buffer,
                            !.in_thinking = g.in_thinking,
                            !.thinking_complete = g.thinking_complete,
                            !.yielded = g.yielded]
    /\ UNCHANGED exceptChat

\* send_message_stream: the generation stream ends; what is left in the
\* buffer is yielded (lines 510-512).
EndOfStream ==
    /\ chat.pc = "generating" /\ chat.path = "stream"
    /\ chat.full_response = chat.raw_response
    /\ chat' = [chat EXCEPT !.pc = "save", !.yielded = FinalFlush(chat).yielded]
    /\ UNCHANGED exceptChat

\* send_message_stream: the assistant message is added and committed
\* (lines 514-536).
SaveAssistantMessage ==
    /\ chat.pc = "save"
    /\ chat' = [chat EXCEPT !.pc = "done",
                  !.messages = Append(@, [role |-> "assistant",
                        content |-> strip_thinking_tags(chat.full_response)])]
    /\ UNCHANGED exceptChat

\* send_message: chat_completion returns; the assistant message is added
\* and the session committed, the user message with it (lines 299-327).
Completion ==
    /\ chat.pc = "generating" /\ chat.path = "batch"
    /\ chat' = [chat EXCEPT !.pc = "done",
                  !.full_response = chat.raw_response,
                  !.yielded = strip_thinking_tags(chat.raw_response),
                  !.messages = @ \o chat.session_new \o
                      <<[role |-> "assistant",
                         content |-> strip_thinking_tags(chat.raw_response)]>>,
                  !.session_new = <<>>]
    /\ UNCHANGED exceptChat

\* The generation capability raises.  The exception leaves the service
\* method; the session is closed (stream, routers/chat.py 177-195) or
\* rolled back (batch, database.py 60-62) with what it had not committed.
GenerationFails ==
    /\ chat.pc = "generating"
    /\ chat' = [chat EXCEPT !.pc = "failed", !.session_new = <<>>]
    /\ UNCHANGED exceptChat

\* The caller of the stream goes away: the generator is cancelled where it
\* is suspended and its session closed.
Abandon ==
    /\ chat.pc \in {"generating", "save"} /\ chat.path = "stream"
    /\ chat' = [chat EXCEPT !.pc = "abandoned", !.session_new = <<>>]
    /\ UNCHANGED exceptChat

\* The texts the generation capability may produce: answer text ("a" and
\* blanks), with up to two reasoning blocks.  A closed block holds "s"; a
\* block that is never closed holds "u" and ends the text.
LongText == [i \in 1..(FLUSH_LEN + 1) |-> "a"]
Answers  == {<<>>, <<"a">>, <<" ">>, <<" ", "a">>, LongText}
ClosedBlock == OPEN \o <<"s">> \o CLOSE
OpenBlock   == OPEN \o <<"u">>
Texts ==
    LET ends == {<<>>, OpenBlock} \cup {ClosedBlock \o a : a \in Answers \ {LongText}}
        rest == {<<>>, OpenBlock} \cup {ClosedBlock \o a \o e : a \in Answers, e \in ends}
    IN  {a \o r : a \in Answers, r \in rest}

\* No ingestion is going on.
IngestIdle ==
    /\ status = [d \in Docs |-> ABSENT]
    /\ error_message = [d \in Docs |-> FALSE]
    /\ chunks = {}
    /\ file = [d \in Docs |-> FileOf(d)]
    /\ queue = <<>>
    /\ processing = FALSE
    /\ current_document_id = 0
    /\ worker = [w \in Workers |-> IdleWorker]
    /\ tasks = {}
    /\ sweep = [pc |-> "done", list |-> <<>>, found |-> {}]
    /\ request = NoRequest
    /\ jobs = <<>>

\* One chat request, batch or streaming, on one generated text.
ChatInit ==
    /\ IngestIdle
    /\ cite = Off
    /\ store = Off
    /\ LaterOff
    /\ chat \in {[pc |-> "start", path |-> p, raw_response |-> t,
                  full_response |-> <<>>, buffer |-> <<>>,
                  in_thinking |-> FALSE, thinking_complete |-> FALSE,
                  yielded |-> <<>>, messages |-> <<>>, session_new |-> <<>>] :
                     p \in {"batch", "stream"}, t \in Texts}

ChatNext ==
    \/ SaveUserMessage
    \/ \E n \in 1..MaxFragment : Receive(n)
    \/ EndOfStream
    \/ SaveAssistantMessage
    \/ Completion
    \/ GenerationFails
    \/ Abandon

ChatSpec == ChatInit /\ [][ChatNext]_vars

\* ------------------------- chat_service.py: citations of an answer
\* A page number as decimal digits, and back (int()).
Digit == <<"1", "2", "3", "4", "5", "6", "7", "8", "9">>
IsDigit(c) == c = "0" \/ \E n \in 1..9 : Digit[n] = c
DigitVal(c) == IF c = "0" THEN 0 ELSE CHOOSE n \in 1..9 : Digit[n] = c
RECURSIVE Decimal(_), ParseInt(_)
Decimal(n) == IF n < 10 THEN (IF n = 0 THEN <<"0">> ELSE <<Digit[n]>>)
              ELSE Decimal(n \div 10) \o Decimal(n % 10)
ParseInt(x) == IF x = <<>> THEN 0
               ELSE 10 * ParseInt(SubSeq(x, 1, Len(x) - 1)) + DigitVal(x[Len(x)])

\* A citation marker as the answer spells it.  form "mandated" is the one
\* the prompt asks for, [LABEL - Page n] (CHAT_SYSTEM_PROMPT, lines 18-37);
\* form "bare" is [Page n]; hi > lo makes it a range, [.. Pages lo-hi].
MarkerText(m) ==
    <<"[">> \o (IF m.form = "mandated" THEN <<"X", " ", "-", " ">> ELSE <<>>)
    \o <<"P", "a", "g", "e">>
    \o (IF m.hi > m.lo THEN <<"s", " ">> \o Decimal(m.lo) \o <<"-">> \o Decimal(m.hi)
                       ELSE <<" ">> \o Decimal(m.lo))
    \o <<"]">>
RECURSIVE AnswerText(_)
AnswerText(ms) == IF ms = <<>> THEN <<"a">>
                  ELSE <<"a", " ">> \o MarkerText(Head(ms)) \o <<" ">> \o AnswerText(Tail(ms))

\* The end of the longest run, from position i of x, of characters of the
\* class S (i - 1 when there is none): \s* and \d+ of the pattern.
RunEnd(x, i, S) ==
    LET ends == {e \in (i - 1)..Len(x) : \A k \in i..e : x[k] \in S}
    IN  CHOOSE e \in ends : \A f \in ends : f <= e
DigitChars == {c \in {"0", "1", "2", "3", "4", "5", "6", "7", "8", "9"} : IsDigit(c)}

\* The pattern \[Page[s]?\s*(\d+(?:-\d+)?)\] tried at position i of x: the
\* pages of its group 1 when it matches ({} when it does not).
PagesAt(x, i) ==
    LET word == i + 4 <= Len(x) /\ SubSeq(x, i, i + 4) = <<"[", "P", "a", "g", "e">>
        p    == IF i + 5 <= Len(x) /\ x[i + 5] = "s" THEN i + 6 ELSE i + 5
        d1   == RunEnd(x, p, Whitespace) + 1
        e1   == RunEnd(x, d1, DigitChars)
        dash == e1 + 1 <= Len(x) /\ x[e1 + 1] = "-"
        e2   == RunEnd(x, e1 + 2, DigitChars)
    IN  IF ~word \/ e1 < d1 THEN {}
        ELSE IF e1 + 1 <= Len(x) /\ x[e1 + 1] = "]"
          THEN {ParseInt(SubSeq(x, d1, e1))}
        ELSE IF dash /\ e2 >= e1 + 2 /\ e2 + 1 <= Len(x) /\ x[e2 + 1] = "]"
          THEN ParseInt(SubSeq(x, d1, e1))..ParseInt(SubSeq(x, e1 + 2, e2))
        ELSE {}

\* _extract_citations_from_response (lines 538-564).
extract_citations_from_response(response, available_citations) ==
    LET cited_pages == UNION {PagesAt(response, i) : i \in 1..Len(response)}
    IN  SelectSeq(available_citations, LAMBDA c : c.page_number \in cited_pages)

\* The call is made.
ExtractCitations ==
    /\ cite.pc = "called"
    /\ cite' = [cite EXCEPT !.pc = "returned",
                  !.relevant_citations =
                      extract_citations_from_response(AnswerText(cite.markers),
                                                      cite.available_citations)]
    /\ UNCHANGED exceptCite

\* Another answer is generated and its citations asked for.
NextAnswer(ms) ==
    /\ cite.pc = "returned"
    /\ cite' = [cite EXCEPT !.pc = "called", !.markers = ms,
                            !.relevant_citations = <<>>]
    /\ UNCHANGED exceptCite

\* The answers: up to MaxMarkers markers, each on one of the cited pages or
\* a range over them; the candidates: citations of some of the pages
\* 1, 3, 5, 7, in page order.
CitedPages     == {3, 7}
CandidatePages == {1, 3, 5, 7}
Markers ==
    {[form |-> f, lo |-> lo, hi |-> hi] :
        f \in {"mandated", "bare"}, lo \in CitedPages, hi \in CitedPages}
MarkerLists == UNION {[1..n -> Markers] : n \in 0..MaxMarkers}
RECURSIVE CitationsOf(_)
CitationsOf(P) ==
    IF P = {} THEN <<>>
    ELSE LET p == CHOOSE q \in P : \A r \in P : q <= r
         IN  <<[document_id |-> 1, page_number |-> p]>> \o CitationsOf(P \ {p})

CiteInit ==
    /\ IngestIdle
    /\ chat = Off
    /\ store = Off
    /\ LaterOff
    /\ cite \in {[pc |-> "called", markers |-> ms,
                  available_citations |-> CitationsOf(P),
                  relevant_citations |-> <<>>] :
                     ms \in MarkerLists, P \in SUBSET CandidatePages}

CiteNext ==
    \/ ExtractCitations
    \/ \E ms \in MarkerLists : NextAnswer(ms)

CiteSpec == CiteInit /\ [][CiteNext]_vars

\* ------------------------------------------------------ vector_store.py
\* An embedding is a vector of two integers; None is the embedding column
\* of a chunk row saved without one.
None == <<>>
Dot(a, b) == a[1] * b[1] + a[2] * b[2]
Abs(n) == IF n < 0 THEN 0 - n ELSE n

\* similarities[i] (lines 212-220): the cosine of the chunk's embedding and
\* the query, 0 for an embedding of norm 0.  The cosine is kept exact as the
\* fraction num/den of its signed square, which orders and ties as the
\* cosine does.
Similarity(query_embedding, e) ==
    IF Dot(e, e) = 0 THEN [num |-> 0, den |-> 1]
    ELSE [num |-> Dot(e, query_embedding) * Abs(Dot(e, query_embedding)),
          den |-> Dot(e, e) * Dot(query_embedding, query_embedding)]
ScoreLess(a, b) == a.num * b.den < b.num * a.den
ScoreEqual(a, b) == a.num * b.den = b.num * a.den

\* np.argsort(similarities): an order of the indices with ascending
\* similarity.  The default sort is not stable, so every order of a group
\* of equal similarities is a possible outcome.
RECURSIVE Ascending(_, _)
Ascending(similarities, rem) ==
    IF rem = {} THEN {<<>>}
    ELSE UNION {{<<i>> \o t : t \in Ascending(similarities, rem \ {i})} :
                  i \in {m \in rem :
                           \A j \in rem :
                              ~ScoreLess(similarities[j], similarities[m])}}
argsort(similarities) == Ascending(similarities, DOMAIN similarities)

\* [::-1][:top_k] (lines 223, 336): the order reversed, then its first
\* top_k indices.
Smaller_Second(a, b) == b
Smaller(a, b) == IF a < b THEN a ELSE b
top_indices_Ascending(order, top_k) ==
    SubSeq(order, 1, Smaller(top_k, Len(order)))
top_indices(order, top_k) ==
    [i \in 1..Smaller(top_k, Len(order)) |-> order[Len(order) + 1 - i]]

\* Lines 195-229 and 306-339: what the ranking of a chunk list can return,
\* with the indices it chose.
Ranked(chunk_list, query_embedding, top_k) ==
    IF chunk_list = <<>> \/ Dot(query_embedding, query_embedding) = 0
    THEN {[top_indices |-> <<>>, result |-> <<>>]}
    ELSE LET similarities ==
                 [i \in 1..Len(chunk_list) |->
                     Similarity(query_embedding, chunk_list[i].embedding)]
         IN  {LET t == top_indices(o, top_k)
              IN  [top_indices |-> t,
                   result |-> [i \in 1..Len(t) |->
                                  [chunk |-> chunk_list[t[i]],
                                   score |-> similarities[t[i]]]]] :
                 o \in argsort(similarities)}

\* select(DocumentChunk).where(document_id == d).where(embedding.isnot(None))
\* has no ORDER BY: the rows come in any order.
RECURSIVE Orders(_)
Orders(S) ==
    IF S = {} THEN {<<>>}
    ELSE UNION {{<<x>> \o t : t \in Orders(S \ {x})} : x \in S}
SelectEmbedded(rows, document_id) ==
    Orders({r \in rows : r.document_id = document_id /\ r.embedding # None})

\* self._embedding_cache[document_id] = (chunks, chunk_embeddings)
CachePut(cache, document_id, chunk_list) ==
    [d \in DOMAIN cache \cup {document_id} |->
        IF d = document_id THEN chunk_list ELSE cache[d]]

NoCall == [op |-> "none"]

\* VectorStore.search, lines 146-229.  It raises when create_embedding or
\* the query of the rows raises; otherwise it ranks the cached chunk list
\* of the document, caching the rows first when the document is not cached
\* and has rows.
search(query_embedding, document_id, top_k) ==
    /\ store.pc = "idle"
    /\ LET call == [op |-> "search", query_embedding |-> query_embedding,
                    document_ids |-> <<document_id>>, top_k |-> top_k]
       IN  \/ store' = [store EXCEPT !.pc = "raised", !.call = call]
           \/ \E chunk_list \in
                    (IF document_id \in DOMAIN store.embedding_cache
                     THEN {store.embedding_cache[document_id]}
                     ELSE SelectEmbedded(store.rows, document_id)) :
                 \E r \in Ranked(chunk_list, query_embedding, top_k) :
                    store' = [store EXCEPT
                        !.pc = "returned",
                        !.call = call,
                        !.cached_docs =
                            IF document_id \in DOMAIN store.embedding_cache
                            THEN <<document_id>> ELSE <<>>,
                        !.queried =
                            IF document_id \in DOMAIN store.embedding_cache
                            THEN {} ELSE {document_id},
                        !.embedding_cache =
                            IF chunk_list = <<>> THEN @
                            ELSE CachePut(@, document_id, chunk_list),
                        !.chunk_list = chunk_list,
                        !.top_indices = r.top_indices,
                        !.result = r.result]
    /\ UNCHANGED exceptStore

\* load_document_chunks under asyncio.gather(return_exceptions=True), lines
\* 266-286: one outcome per uncached document, an exception or its rows.
LoadOutcomes(rows, document_id) ==
    {[ok |-> FALSE, chunk_list |-> <<>>]} \cup
    {[ok |-> TRUE, chunk_list |-> c] : c \in SelectEmbedded(rows, document_id)}
LoadedResults(rows, uncached_docs) ==
    {l \in [1..Len(uncached_docs) ->
               UNION {LoadOutcomes(rows, uncached_docs[i]) :
                         i \in 1..Len(uncached_docs)}] :
        \A i \in 1..Len(uncached_docs) :
           l[i] \in LoadOutcomes(rows, uncached_docs[i])}

RECURSIVE Extend(_)
Extend(lists) ==
    IF lists = <<>> THEN <<>> ELSE Head(lists) \o Extend(Tail(lists))
RECURSIVE CacheLoaded(_, _, _)
CacheLoaded(cache, uncached_docs, loaded_results) ==
    IF uncached_docs = <<>> THEN cache
    ELSE CacheLoaded(IF Head(loaded_results).chunk_list = <<>> THEN cache
                     ELSE CachePut(cache, Head(uncached_docs),
                                   Head(loaded_results).chunk_list),
                     Tail(uncached_docs), Tail(loaded_results))

\* VectorStore.search_multiple_documents, lines 231-339.  It raises when
\* create_embedding raises; otherwise it ranks the chunk lists of the cached
\* documents followed by those of the documents it could load, which it
\* caches; a document whose load raised is left out.
search_multiple_documents(query_embedding, document_ids, top_k) ==
    /\ store.pc = "idle"
    /\ LET call == [op |-> "search_multiple_documents",
                    query_embedding |-> query_embedding,
                    document_ids |-> document_ids, top_k |-> top_k]
           cached_docs ==
               SelectSeq(document_ids,
                         LAMBDA d : d \in DOMAIN store.embedding_cache)
           uncached_docs ==
               SelectSeq(document_ids,
                         LAMBDA d : d \notin DOMAIN store.embedding_cache)
       IN  \/ store' = [store EXCEPT !.pc = "raised", !.call = call]
           \/ \E loaded_results \in LoadedResults(store.rows, uncached_docs) :
                 LET all_chunks ==
                         Extend([i \in 1..Len(cached_docs) |->
                                    store.embedding_cache[cached_docs[i]]])
                         \o Extend([i \in 1..Len(uncached_docs) |->
                                       loaded_results[i].chunk_list])
                 IN  \E r \in Ranked(all_chunks, query_embedding, top_k) :
                        store' = [store EXCEPT
                            !.pc = "returned",
                            !.call = call,
                            !.cached_docs = cached_docs,
                            !.queried =
                                {uncached_docs[i] :
                                    i \in 1..Len(uncached_docs)},
                            !.failed_docs =
                                {uncached_docs[i] :
                                    i \in {n \in 1..Len(uncached_docs) :
                                              ~loaded_results[n].ok}},
                            !.embedding_cache =
                                CacheLoaded(@, uncached_docs, loaded_results),
                            !.chunk_list = all_chunks,
                            !.top_indices = r.top_indices,
                            !.result = r.result]
    /\ UNCHANGED exceptStore

\* The caller has its result or its exception; the next call can come.
SearchReturns ==
    /\ store.pc \in {"returned", "raised"}
    /\ store' = [store EXCEPT !.pc = "idle", !.call = NoCall,
                              !.previous = NoCall, !.queried = {},
                              !.value = FALSE, !.response = "none",
                              !.cached_docs = <<>>, !.failed_docs = {},
                              !.chunk_list = <<>>, !.top_indices = <<>>,
                              !.result = <<>>]
    /\ UNCHANGED exceptStore

\* VectorStore.preload_cache, lines 354-385: what a call can do.  cached is
\* the cache it leaves, value what it returns, queried whether it selected
\* the rows of the document.  It is not called when the query raises.
preload_cache(cache, rows, document_id) ==
    IF document_id \in DOMAIN cache
    THEN {[cached |-> cache, value |-> FALSE, queried |-> {}]}
    ELSE {[cached |-> IF chunk_list = <<>> THEN cache
                      ELSE CachePut(cache, document_id, chunk_list),
           value |-> chunk_list # <<>>,
           queried |-> {document_id}] :
             chunk_list \in SelectEmbedded(rows, document_id)}

\* POST /preload/{document_id}, routers/chat.py lines 225-254, with the
\* call of preload_cache it makes.  The request can follow the previous
\* one at once.
preload_document_cache(document_id) ==
    /\ store.pc \in {"idle", "returned", "raised"}
    /\ LET call == [op |-> "preload_cache", document_ids |-> <<document_id>>]
           previous == IF store.pc = "returned" THEN store.call ELSE NoCall
           fresh == [store EXCEPT !.call = call, !.previous = previous,
                                  !.queried = {}, !.value = FALSE,
                                  !.cached_docs = <<>>, !.failed_docs = {},
                                  !.chunk_list = <<>>, !.top_indices = <<>>,
                                  !.result = <<>>]
       IN  IF document_id \in DOMAIN store.embedding_cache
           THEN store' = [fresh EXCEPT !.pc = "returned",
                                       !.response = "already_cached"]
           ELSE IF document_id \notin store.documents
           THEN store' = [fresh EXCEPT !.pc = "raised", !.response = "404"]
           ELSE \/ store' = [fresh EXCEPT !.pc = "raised",
                                          !.response = "500",
                                          !.queried = {document_id}]
                \/ \E o \in preload_cache(store.embedding_cache, store.rows,
                                          document_id) :
                      store' = [fresh EXCEPT
                          !.pc = "returned",
                          !.embedding_cache = o.cached,
                          !.value = o.value,
                          !.queried = o.queried,
                          !.response = IF o.value THEN "loaded"
                                       ELSE "no_chunks"]
    /\ UNCHANGED exceptStore

\* _embed_and_save_batch commits a chunk row of a document that is being
\* ingested (processing_queue.py, lines 247-262); ids are given in order.
RowsOfDocument(rows, d) == {r \in rows : r.document_id = d}
ChunkSaved(d, e) ==
    /\ store.pc = "idle"
    /\ d \in store.documents \ store.completed
    /\ Cardinality(RowsOfDocument(store.rows, d)) < MaxSaved
    /\ LET n == Cardinality(RowsOfDocument(store.rows, d))
       IN  store' = [store EXCEPT
               !.rows = @ \cup {[id |-> 10 * (d - 1) + n + 1,
                                 document_id |-> d, chunk_index |-> n,
                                 embedding |-> e]}]
    /\ UNCHANGED exceptStore

\* _process_document_streaming, processing_queue.py lines 135-138: the job
\* of a document has saved its chunks and marks the document completed.
DocumentCompleted(d) ==
    /\ store.pc = "idle"
    /\ d \in store.documents \ store.completed
    /\ store' = [store EXCEPT !.completed = @ \cup {d}]
    /\ UNCHANGED exceptStore

\* DELETE /{document_id}, routers/documents.py lines 226-301: the chunk rows
\* of the document and the document go; the cache is not touched.
delete_document_Evicts(document_id) ==
    /\ store.pc = "idle"
    /\ document_id \in store.documents
    /\ store' = [store EXCEPT
           !.documents = @ \ {document_id},
           !.rows = @ \ RowsOfDocument(@, document_id),
           !.embedding_cache =
               [d \in DOMAIN @ \ {document_id} |-> @[d]]]
    /\ UNCHANGED exceptStore
delete_document(document_id) ==
    /\ store.pc = "idle"
    /\ document_id \in store.documents
    /\ store' = [store EXCEPT
           !.documents = @ \ {document_id},
           !.rows = @ \ RowsOfDocument(@, document_id)]
    /\ UNCHANGED exceptStore

\* The chunk rows the process finds: document 1 has up to MaxChunks rows,
\* each with an embedding; document 2 has no row, one row, or a row without
\* embedding and two rows with the same embedding.
Embeddings == {<<1, 0>>, <<0, 1>>, <<1, 1>>, <<0, 0>>}
Queries    == {<<1, 0>>, <<1, 1>>, <<0 - 1, 0>>, <<0, 0>>}
RowsOfOne ==
    UNION {{{[id |-> i, document_id |-> 1, chunk_index |-> i - 1,
              embedding |-> e[i]] : i \in 1..n} :
              e \in [1..n -> Embeddings]} : n \in 0..MaxChunks}
RowsOfTwo ==
    {{[id |-> 10 + i, document_id |-> 2, chunk_index |-> i - 1,
       embedding |-> e[i]] : i \in 1..Len(e)} :
        e \in {<<>>, <<<<1, 0>>>>, <<<<0, 0>>>>,
               <<None, <<1, 0>>, <<1, 0>>>>}}
DocumentLists == {<<1, 2>>, <<2, 1>>}

SearchInit ==
    /\ IngestIdle
    /\ chat = Off
    /\ cite = Off
    /\ LaterOff
    /\ store \in {[pc |-> "idle", rows |-> one \cup two,
                   embedding_cache |-> <<>>, call |-> NoCall,
                   cached_docs |-> <<>>, failed_docs |-> {},
                   documents |-> Docs, completed |-> {},
                   previous |-> NoCall,
                   queried |-> {}, value |-> FALSE, response |-> "none",
                   chunk_list |-> <<>>, top_indices |-> <<>>,
                   result |-> <<>>] :
                     one \in RowsOfOne, two \in RowsOfTwo}

SearchNext ==
    \/ \E q \in Queries, d \in Docs, k \in 1..MaxTopK : search(q, d, k)
    \/ \E q \in Queries, l \in DocumentLists, k \in 1..MaxTopK :
          search_multiple_documents(q, l, k)
    \/ SearchReturns

SearchSpec == SearchInit /\ [][SearchNext]_vars

\* The process starts on two documents without chunk rows; the documents
\* are ingested and deleted while queries and preloads are made.
CacheEmbeddings == {<<1, 0>>, <<0, 0>>}
CacheInit ==
    /\ IngestIdle
    /\ chat = Off
    /\ cite = Off
    /\ LaterOff
    /\ store = [pc |-> "idle", rows |-> {},
                embedding_cache |-> <<>>, call |-> NoCall,
                cached_docs |-> <<>>, failed_docs |-> {},
                documents |-> Docs, completed |-> {},
                previous |-> NoCall,
                queried |-> {}, value |-> FALSE, response |-> "none",
                chunk_list |-> <<>>, top_indices |-> <<>>,
                result |-> <<>>]

CacheNext ==
    \/ \E d \in Docs : search(<<1, 0>>, d, 1)
    \/ \E l \in DocumentLists : search_multiple_documents(<<1, 0>>, l, 1)
    \/ SearchReturns
    \/ \E d \in Docs : preload_document_cache(d)
    \/ \E d \in Docs, e \in CacheEmbeddings : ChunkSaved(d, e)
    \/ \E d \in Docs : DocumentCompleted(d)
    \/ \E d \in Docs : delete_document(d)

CacheSpec == CacheInit /\ [][CacheNext]_vars

\* ------------------------- vector_store.py: queries in flight at once
\* The queries run as coroutines of one event loop: a query runs alone from
\* one await to the next.  queries.task[c] is query c at its await point,
\* queries.embedding_cache the cache they share, queries.rows the chunk
\* rows.

\* (chunks, chunk_embeddings), built from one list of rows (lines 191-192,
\* 274-275, 380-381).
CacheEntry_OldChunks(cache, document_id, chunk_list) ==
    [chunks |-> IF document_id \in DOMAIN cache
                THEN cache[document_id].chunks ELSE chunk_list,
     chunk_embeddings |-> [i \in 1..Len(chunk_list) |-> chunk_list[i].embedding]]
CacheEntry(cache, document_id, chunk_list) ==
    [chunks |-> chunk_list,
     chunk_embeddings |-> [i \in 1..Len(chunk_list) |-> chunk_list[i].embedding]]

\* The rows of a cache entry as the ranking reads them: chunk i with row i
\* of the matrix.
EntryRows(entry) ==
    [i \in 1..Len(entry.chunks) |->
        [chunk |-> entry.chunks[i], embedding |-> entry.chunk_embeddings[i]]]

\* The callers, and the embedding of their query; they ask for one result.
Callers == 1..MaxQueries
QueryVector == <<1, 0>>
NoTask ==
    [pc |-> "none", op |-> "none", document_ids |-> <<>>,
     cached_docs |-> <<>>, uncached_docs |-> <<>>, loaded |-> <<>>,
     result |-> <<>>]
Pending == [state |-> "pending", chunk_list |-> <<>>]

\* A call of search, search_multiple_documents or preload_cache.  The two
\* searches first await the query embedding; preload_cache checks the cache
\* at once (lines 365-367) and awaits the rows when the document is not
\* cached.
QueryCalled(c, op, document_ids) ==
    /\ queries.task[c].pc = "none"
    /\ LET t == [NoTask EXCEPT !.op = op, !.document_ids = document_ids]
       IN  queries' = [queries EXCEPT !.task[c] =
               IF op # "preload_cache" THEN [t EXCEPT !.pc = "embedding"]
               ELSE IF document_ids[1] \in DOMAIN queries.embedding_cache
               THEN [t EXCEPT !.pc = "returned", !.result = <<FALSE>>]
               ELSE [t EXCEPT !.pc = "loading",
                              !.uncached_docs = document_ids,
                              !.loaded = <<Pending>>]]
    /\ UNCHANGED exceptQueries

\* create_embedding returns (or raises): search goes on from line 173,
\* search_multiple_documents from line 255.  With every document cached
\* the query ranks and returns; otherwise it awaits the rows.
EmbeddingArrives(c) ==
    /\ queries.task[c].pc = "embedding"
    /\ LET t == queries.task[c]
           cached_docs ==
               SelectSeq(t.document_ids,
                         LAMBDA d : d \in DOMAIN queries.embedding_cache)
           uncached_docs ==
               SelectSeq(t.document_ids,
                         LAMBDA d : d \notin DOMAIN queries.embedding_cache)
           all_chunks ==
               Extend([i \in 1..Len(cached_docs) |->
                          EntryRows(queries.embedding_cache[cached_docs[i]])])
       IN  \/ queries' = [queries EXCEPT !.task[c].pc = "raised"]
           \/ /\ uncached_docs = <<>>
              /\ \E r \in Ranked(all_chunks, QueryVector, 1) :
                    queries' = [queries EXCEPT
                        !.task[c].pc = "returned",
                        !.task[c].cached_docs = cached_docs,
                        !.task[c].result = <<r.result>>]
           \/ /\ uncached_docs # <<>>
              /\ queries' = [queries EXCEPT
                     !.task[c].pc = "loading",
                     !.task[c].cached_docs = cached_docs,
                     !.task[c].uncached_docs = uncached_docs,
                     !.task[c].loaded =
                         [i \in 1..Len(uncached_docs) |-> Pending]]
    /\ UNCHANGED exceptQueries

\* The select of the rows of the i-th uncached document returns (or
\* raises).  Rows that are not empty are put in the cache, whatever the
\* cache holds by now.  search (lines 185-229) and preload_cache (lines
\* 377-385) then run to their return; a load of search_multiple_documents
\* (lines 266-277) ends, and the gather ends with the last load.
RowsArrive(c, i) ==
    /\ queries.task[c].pc = "loading"
    /\ i \in 1..Len(queries.task[c].loaded)
    /\ queries.task[c].loaded[i] = Pending
    /\ LET t == queries.task[c]
           d == t.uncached_docs[i]
           gathered(l) ==
               IF \E n \in 1..Len(l) : l[n] = Pending
               THEN "loading" ELSE "gathered"
       IN  \/ /\ t.op # "search_multiple_documents"
              /\ queries' = [queries EXCEPT !.task[c].pc = "raised"]
           \/ /\ t.op = "search_multiple_documents"
              /\ LET l == [t.loaded EXCEPT ![i] =
                              [state |-> "exception", chunk_list |-> <<>>]]
                 IN  queries' = [queries EXCEPT
                         !.task[c].loaded = l,
                         !.task[c].pc = gathered(l)]
           \/ \E chunk_list \in SelectEmbedded(queries.rows, d) :
                 LET entry == CacheEntry(queries.embedding_cache, d, chunk_list)
                     cache == IF chunk_list = <<>> THEN queries.embedding_cache
                              ELSE CachePut(queries.embedding_cache, d, entry)
                     l == [t.loaded EXCEPT ![i] =
                              [state |-> "ok", chunk_list |-> chunk_list]]
                 IN  CASE t.op = "search" ->
                            \E r \in Ranked(IF chunk_list = <<>> THEN <<>>
                                            ELSE EntryRows(entry),
                                            QueryVector, 1) :
                               queries' = [queries EXCEPT
                                   !.embedding_cache = cache,
                                   !.task[c].loaded = l,
                                   !.task[c].pc = "returned",
                                   !.task[c].result = <<r.result>>]
                        [] t.op = "preload_cache" ->
                            queries' = [queries EXCEPT
                                !.embedding_cache = cache,
                                !.task[c].loaded = l,
                                !.task[c].pc = "returned",
                                !.task[c].result = <<chunk_list # <<>>>>]
                        [] OTHER ->
                            queries' = [queries EXCEPT
                                !.embedding_cache = cache,
                                !.task[c].loaded = l,
                                !.task[c].pc = gathered(l)]
    /\ UNCHANGED exceptQueries

\* search_multiple_documents after its gather, lines 288-339: the entries
\* of the documents that were cached at line 260, as the cache holds them
\* now, then the lists this call loaded.
GatherReturns(c) ==
    /\ queries.task[c].pc = "gathered"
    /\ LET t == queries.task[c]
           all_chunks ==
               Extend([i \in 1..Len(t.cached_docs) |->
                          EntryRows(queries.embedding_cache[t.cached_docs[i]])])
               \o Extend([i \in 1..Len(t.loaded) |->
                             EntryRows(CacheEntry(queries.embedding_cache,
                                                  t.uncached_docs[i],
                                                  t.loaded[i].chunk_list))])
       IN  \E r \in Ranked(all_chunks, QueryVector, 1) :
              queries' = [queries EXCEPT !.task[c].pc = "returned",
                                         !.task[c].result = <<r.result>>]
    /\ UNCHANGED exceptQueries

\* The caller has its result or its exception.
QueryEnds(c) ==
    /\ queries.task[c].pc \in {"returned", "raised"}
    /\ queries' = [queries EXCEPT !.task[c] = NoTask]
    /\ UNCHANGED exceptQueries

\* Document 1 has two embedded chunk rows, with different embeddings,
\* document 2 none or one; nothing is cached when the process starts.
QueriesInit ==
    /\ IngestIdle
    /\ chat = Off
    /\ cite = Off
    /\ store = Off
    /\ scx = Off
    /\ uploads = Off
    /\ processor = Off
    /\ analysis = Off
    /\ queries \in {[rows |-> one \cup two, embedding_cache |-> <<>>,
                     task |-> [c \in Callers |-> NoTask]] :
                       one \in {R \in RowsOfOne :
                                  /\ Cardinality(R) = 2
                                  /\ {r.embedding : r \in R}
                                        = {<<1, 0>>, <<0, 1>>}},
                       two \in {R \in RowsOfTwo : Cardinality(R) <= 1}}

QueriesNext ==
    \/ \E c \in Callers, d \in Docs : QueryCalled(c, "search", <<d>>)
    \/ \E c \in Callers, d \in Docs : QueryCalled(c, "preload_cache", <<d>>)
    \/ \E c \in Callers, l \in DocumentLists :
          QueryCalled(c, "search_multiple_documents", l)
    \/ \E c \in Callers : EmbeddingArrives(c)
    \/ \E c \in Callers, i \in 1..MaxDocs : RowsArrive(c, i)
    \/ \E c \in Callers : GatherReturns(c)
    \/ \E c \in Callers : QueryEnds(c)

QueriesSpec == QueriesInit /\ [][QueriesNext]_vars

\* ---------------------------------------------------------- scx_client.py
\* One call of chat_completion (batch) or chat_completion_stream.  attempt
\* counts the requests made to the model, chunk_count is the local of the
\* streaming attempt, delivered logs, per fragment yielded to the consumer,
\* the attempt that produced it.
NoGeneration ==
    [pc |-> "idle", op |-> "none", attempt |-> 0, chunk_count |-> 0,
     delivered |-> <<>>, result |-> "none"]

\* The call is made and its first request sent.
GenerationCalled(op) ==
    /\ scx.pc = "idle"
    /\ scx' = [NoGeneration EXCEPT !.pc = "attempt", !.op = op, !.attempt = 1]
    /\ UNCHANGED exceptScx

\* chat_completion, lines 56-64: the request returns and its content is
\* returned to the caller as it is, a text, an empty text or None.
CompletionReturns(content) ==
    /\ scx.pc = "attempt"
    /\ scx.op = "chat_completion"
    /\ scx' = [scx EXCEPT !.pc = "returned", !.result = content]
    /\ UNCHANGED exceptScx

\* chat_completion, lines 26-29 and 65-67: the request raises; tenacity
\* calls again until attempt 3 has raised, then raises itself.
CompletionRaises ==
    /\ scx.pc = "attempt"
    /\ scx.op = "chat_completion"
    /\ scx' = IF scx.attempt < max_retries
              THEN [scx EXCEPT !.attempt = @ + 1]
              ELSE [scx EXCEPT !.pc = "raised"]
    /\ UNCHANGED exceptScx

\* chat_completion_stream, lines 148-153: a fragment with content comes and
\* is yielded.
FragmentYielded ==
    /\ scx.pc = "attempt"
    /\ scx.op = "chat_completion_stream"
    /\ scx.chunk_count < MaxYield
    /\ scx' = [scx EXCEPT !.chunk_count = @ + 1,
                          !.delivered = Append(@, scx.attempt)]
    /\ UNCHANGED exceptScx

\* chat_completion_stream, lines 155-164 and 174-176: the stream ends.  With
\* content the generator returns; without, it sleeps and attempts again, and
\* after the last attempt raises last_error.
StreamEnds ==
    /\ scx.pc = "attempt"
    /\ scx.op = "chat_completion_stream"
    /\ scx' = IF scx.chunk_count > 0
              THEN [scx EXCEPT !.pc = "returned", !.result = "content"]
              ELSE IF scx.attempt < max_retries
              THEN [scx EXCEPT !.attempt = @ + 1, !.chunk_count = 0]
              ELSE [scx EXCEPT !.pc = "raised"]
    /\ UNCHANGED exceptScx

\* chat_completion_stream, lines 166-172: the request or the stream raises.
\* Before the last attempt the generator sleeps and attempts again, after
\* it the exception is raised.
StreamRaises ==
    /\ scx.pc = "attempt"
    /\ scx.op = "chat_completion_stream"
    /\ scx' = IF scx.attempt < max_retries
              THEN [scx EXCEPT !.attempt = @ + 1, !.chunk_count = 0]
              ELSE [scx EXCEPT !.pc = "raised"]
    /\ UNCHANGED exceptScx

\* The caller has the result or the exception.
GenerationEnds ==
    /\ scx.pc \in {"returned", "raised"}
    /\ scx' = NoGeneration
    /\ UNCHANGED exceptScx

Contents == {"content", "empty", "None"}
ScxInit ==
    /\ IngestIdle
    /\ chat = Off
    /\ cite = Off
    /\ store = Off
    /\ queries = Off
    /\ uploads = Off
    /\ processor = Off
    /\ analysis = Off
    /\ scx = NoGeneration

ScxNext ==
    \/ \E op \in {"chat_completion", "chat_completion_stream"} :
          GenerationCalled(op)
    \/ \E content \in Contents : CompletionReturns(content)
    \/ CompletionRaises
    \/ FragmentYielded
    \/ StreamEnds
    \/ StreamRaises
    \/ GenerationEnds

ScxSpec == ScxInit /\ [][ScxNext]_vars

\* ----------------------------- routers/documents.py: upload_document
\* The upload requests in flight, each at one of its await points, and the
\* rows of the documents table with their content_hash.  The column has an
\* index that is not unique (models/document.py, line 48).
Uploaders == 1..MaxUploads
Hashes == {"h1", "h2"}
NoUpload == [pc |-> "none", content_hash |-> "none"]
WithHash(rows, content_hash) ==
    {i \in 1..Len(rows) : rows[i].content_hash = content_hash}

\* Lines 56-75: the file is read and its hash computed.
UploadCalled(u, content_hash) ==
    /\ uploads.request[u].pc = "none"
    /\ uploads' = [uploads EXCEPT
           !.request[u] = [pc |-> "select", content_hash |-> content_hash]]
    /\ UNCHANGED exceptUploads

\* Lines 78-86: the select of the documents with this hash returns, and
\* scalar_one_or_none takes its row: a row refuses the upload with a 400,
\* several rows raise, no row lets the upload go on to its commit.
DuplicateCheck(u) ==
    /\ uploads.request[u].pc = "select"
    /\ LET n == Cardinality(WithHash(uploads.documents,
                                     uploads.request[u].content_hash))
       IN  uploads' = [uploads EXCEPT !.request[u].pc =
               IF n = 0 THEN "commit"
               ELSE IF n = 1 THEN "refused" ELSE "raised"]
    /\ UNCHANGED exceptUploads

\* Lines 88-111: the file is saved and the Document row committed, or the
\* commit raises.
DocumentCommit(u) ==
    /\ uploads.request[u].pc = "commit"
    /\ Len(uploads.documents) < MaxRows
    /\ \/ uploads' = [uploads EXCEPT
              !.documents = Append(@, [id |-> Len(@) + 1,
                                       content_hash |->
                                           uploads.request[u].content_hash]),
              !.request[u].pc = "created"]
       \/ uploads' = [uploads EXCEPT !.request[u].pc = "raised"]
    /\ UNCHANGED exceptUploads

\* Lines 113-133: the document is queued and the response sent; or the
\* error response is sent.
UploadEnds(u) ==
    /\ uploads.request[u].pc \in {"created", "refused", "raised"}
    /\ uploads' = [uploads EXCEPT !.request[u] = NoUpload]
    /\ UNCHANGED exceptUploads

UploadInit ==
    /\ IngestIdle
    /\ chat = Off
    /\ cite = Off
    /\ store = Off
    /\ queries = Off
    /\ scx = Off
    /\ processor = Off
    /\ analysis = Off
    /\ uploads = [documents |-> <<>>,
                  request |-> [u \in Uploaders |-> NoUpload]]

UploadNext ==
    \/ \E u \in Uploaders, h \in Hashes : UploadCalled(u, h)
    \/ \E u \in Uploaders : DuplicateCheck(u)
    \/ \E u \in Uploaders : DocumentCommit(u)
    \/ \E u \in Uploaders : UploadEnds(u)

UploadSpec == UploadInit /\ [][UploadNext]_vars

\* -------------------------------------------------- document_processor.py
\* Texts are sequences of characters.  cfg is the pair of settings
\* chunk_size and chunk_overlap (config.py, lines 43-44).
Strip(x) == RStrip(LStrip(x))

\* text.split("\n")
RECURSIVE SplitLines(_)
SplitLines(text) ==
    IF Find(text, <<"\n">>) = 0 THEN <<text>>
    ELSE <<Before(text, <<"\n">>)>> \o SplitLines(After(text, <<"\n">>))

\* The loop of _split_into_paragraphs (lines 238-252) over the lines left.
RECURSIVE ParagraphLoop(_, _, _)
ParagraphLoop(lines, paragraphs, current) ==
    IF lines = <<>>
    THEN IF current # <<>> THEN Append(paragraphs, current) ELSE paragraphs
    ELSE LET line == Strip(Head(lines))
         IN  IF line = <<>>
             THEN ParagraphLoop(Tail(lines),
                                IF current # <<>>
                                THEN Append(paragraphs, current)
                                ELSE paragraphs,
                                <<>>)
             ELSE ParagraphLoop(Tail(lines), paragraphs,
                                IF current # <<>>
                                THEN current \o <<" ">> \o line ELSE line)
split_into_paragraphs(text) == ParagraphLoop(SplitLines(text), <<>>, <<>>)

\* The forced split of a paragraph (lines 178-187), from offset i on:
\* pieces of chunk_size characters every chunk_size - chunk_overlap.
RECURSIVE ForceSplit(_, _, _, _, _)
ForceSplit(para, i, page_number, chunk_index, cfg) ==
    IF i >= Len(para) THEN [chunks |-> <<>>, chunk_index |-> chunk_index]
    ELSE LET chunk_text ==
                 SubSeq(para, i + 1, Smaller(i + cfg.chunk_size, Len(para)))
             step == cfg.chunk_size - cfg.chunk_overlap
         IN  IF NonBlank(chunk_text)
             THEN LET r == ForceSplit(para, i + step, page_number,
                                      chunk_index + 1, cfg)
                  IN  [r EXCEPT !.chunks =
                          <<[content |-> Strip(chunk_text),
                             page_number |-> page_number,
                             chunk_index |-> chunk_index]>> \o @]
             ELSE ForceSplit(para, i + step, page_number, chunk_index, cfg)

\* The loop of create_chunks_from_page over the paragraphs left (lines
\* 162-190), and what the function returns after it (line 193).
RECURSIVE ChunkLoop(_, _, _, _, _)
ChunkLoop(paragraphs, current_chunk, chunk_index, page_number, cfg) ==
    IF paragraphs = <<>>
    THEN [chunks |-> <<>>, chunk_index |-> chunk_index,
          overlap_text |-> current_chunk]
    ELSE LET para == Head(paragraphs)
         IN  IF Len(current_chunk) + Len(para) > cfg.chunk_size
             THEN IF NonBlank(current_chunk)
                  THEN LET overlap ==
                               IF Len(current_chunk) > cfg.chunk_overlap
                               THEN LastChars(current_chunk, cfg.chunk_overlap)
                               ELSE current_chunk
                           r == ChunkLoop(Tail(paragraphs),
                                          overlap \o <<" ">> \o para,
                                          chunk_index + 1, page_number, cfg)
                       IN  [r EXCEPT !.chunks =
                               <<[content |-> Strip(current_chunk),
                                  page_number |-> page_number,
                                  chunk_index |-> chunk_index]>> \o @]
                  ELSE LET f == ForceSplit(para, 0, page_number,
                                           chunk_index, cfg)
                           r == ChunkLoop(Tail(paragraphs), <<>>,
                                          f.chunk_index, page_number, cfg)
                       IN  [r EXCEPT !.chunks = f.chunks \o @]
             ELSE ChunkLoop(Tail(paragraphs),
                            IF current_chunk # <<>>
                            THEN current_chunk \o <<" ">> \o para ELSE para,
                            chunk_index, page_number, cfg)

\* DocumentProcessor.create_chunks_from_page, lines 131-193.
create_chunks_from_page_FlushesOnBlank(page, start_chunk_index, overlap_text, cfg) ==
    IF ~NonBlank(page.text)
    THEN [chunks |-> IF NonBlank(overlap_text)
                     THEN <<[content |-> Strip(overlap_text),
                             page_number |-> page.page_number,
                             chunk_index |-> start_chunk_index]>>
                     ELSE <<>>,
          chunk_index |-> IF NonBlank(overlap_text)
                          THEN start_chunk_index + 1 ELSE start_chunk_index,
          overlap_text |-> <<>>]
    ELSE ChunkLoop(split_into_paragraphs(page.text), overlap_text,
                   start_chunk_index, page.page_number, cfg)
create_chunks_from_page(page, start_chunk_index, overlap_text, cfg) ==
    IF ~NonBlank(page.text)
    THEN [chunks |-> <<>>, chunk_index |-> start_chunk_index,
          overlap_text |-> overlap_text]
    ELSE ChunkLoop(split_into_paragraphs(page.text), overlap_text,
                   start_chunk_index, page.page_number, cfg)

\* _stream_and_embed, processing_queue.py lines 170-179: the next page of
\* the stream is chunked and its chunks join the buffer.
PageChunked ==
    /\ processor.pc = "pages"
    /\ processor.pages_processed < Len(processor.pages)
    /\ LET n == processor.pages_processed + 1
           r == create_chunks_from_page(
                    [page_number |-> n, text |-> processor.pages[n]],
                    processor.chunk_index, processor.overlap_text,
                    processor.cfg)
       IN  processor' = [processor EXCEPT
               !.pages_processed = n,
               !.chunk_index = r.chunk_index,
               !.overlap_text = r.overlap_text,
               !.chunks = @ \o r.chunks]
    /\ UNCHANGED exceptProcessor

\* _stream_and_embed, lines 215-225: after the last page the overlap text
\* left, when it is not blank, is the final chunk.
OverlapChunk_Dropped ==
    /\ processor.pc = "pages"
    /\ processor.pages_processed = Len(processor.pages)
    /\ processor' = [processor EXCEPT !.pc = "done"]
    /\ UNCHANGED exceptProcessor
OverlapChunk ==
    /\ processor.pc = "pages"
    /\ processor.pages_processed = Len(processor.pages)
    /\ processor' = [processor EXCEPT
           !.pc = "done",
           !.chunks =
               IF NonBlank(processor.overlap_text)
               THEN Append(@, [content |-> Strip(processor.overlap_text),
                               page_number |-> processor.pages_processed,
                               chunk_index |-> processor.chunk_index])
               ELSE @]
    /\ UNCHANGED exceptProcessor

\* The documents: up to MaxPages pages, each empty, blank, or of up to
\* MaxParagraphs paragraphs parted by an empty line.  A paragraph has 2, 4
\* or 9 letters, the one of 4 on two lines; a document spells the alphabet,
\* so that every letter tells its place.
Alphabet ==
    <<"a", "b", "c", "d", "e", "f", "g", "h", "i", "j", "k", "l", "m",
      "n", "o", "p", "q", "r", "s", "t", "u", "v", "w", "x", "y", "z",
      "A", "B", "C", "D", "E", "F", "G", "H", "I", "J", "K", "L", "M",
      "N", "O", "P", "Q", "R", "S", "T", "U", "V", "W", "X", "Y", "Z",
      "0", "1", "2", "3", "4", "5", "6", "7", "8", "9">>
Letters(from, n) == [i \in 1..n |-> Alphabet[from + i]]
ParagraphLetters == {2, 4, 9}
BlankPage == <<0>>
PageShapes ==
    {BlankPage} \cup
    UNION {[1..n -> ParagraphLetters] : n \in 0..MaxParagraphs}
RECURSIVE LettersOf(_)
LettersOf(shape) ==
    IF shape = <<>> THEN 0 ELSE Head(shape) + LettersOf(Tail(shape))
ParagraphText(from, n) ==
    IF n = 4 THEN Letters(from, 2) \o <<"\n">> \o Letters(from + 2, 2)
    ELSE Letters(from, n)
RECURSIVE PageText(_, _)
PageText(shape, from) ==
    IF shape = <<>> THEN <<>>
    ELSE IF shape = BlankPage THEN <<" ", "\n", " ">>
    ELSE ParagraphText(from, Head(shape))
         \o (IF Len(shape) > 1 THEN <<"\n", "\n">> ELSE <<>>)
         \o PageText(Tail(shape), from + Head(shape))
RECURSIVE DocumentText(_, _)
DocumentText(shapes, from) ==
    IF shapes = <<>> THEN <<>>
    ELSE <<PageText(Head(shapes), from)>>
         \o DocumentText(Tail(shapes), from + LettersOf(Head(shapes)))
Settings ==
    {[chunk_size |-> 6, chunk_overlap |-> 2],
     [chunk_size |-> 8, chunk_overlap |-> 2],
     [chunk_size |-> 8, chunk_overlap |-> 3]}

ProcessorInit ==
    /\ IngestIdle
    /\ chat = Off
    /\ cite = Off
    /\ store = Off
    /\ queries = Off
    /\ scx = Off
    /\ uploads = Off
    /\ analysis = Off
    /\ processor \in
          {[pc |-> "pages", cfg |-> cfg, pages |-> DocumentText(shapes, 0),
            pages_processed |-> 0, chunk_index |-> 0, overlap_text |-> <<>>,
            chunks |-> <<>>] :
              cfg \in Settings,
              shapes \in UNION {[1..n -> PageShapes] : n \in 1..MaxPages}}

ProcessorNext ==
    \/ PageChunked
    \/ OverlapChunk

ProcessorSpec == ProcessorInit /\ [][ProcessorNext]_vars

\* ------------------------------------------------------ routers/analysis.py
\* analysis.rows are the rows of the analyses table in the order of their
\* creation, analysis.runs the background tasks run_analysis_background in
\* the order in which start_analysis added them, analysis.documents what
\* the requests and the runs find of each document.
InProgress(rows, document_id) ==
    {i \in 1..Len(rows) :
        /\ rows[i].document_id = document_id
        /\ rows[i].status \in {"pending", "processing"}}

\* POST /{document_id}/analyze, lines 39-97.  The request is refused for a
\* document that is not completed or has an Analysis pending or processing
\* (scalar_one_or_none raises when it has several); otherwise it commits a
\* pending Analysis and adds the background task.
start_analysis(document_id) ==
    /\ analysis.pc = "on"
    /\ Len(analysis.runs) < MaxRuns
    /\ LET n == Cardinality(InProgress(analysis.rows, document_id))
           answer == [document_id |-> document_id, detail |-> "none"]
       IN  IF analysis.documents[document_id].status # COMPLETED
           THEN analysis' = [analysis EXCEPT
                    !.response = [answer EXCEPT !.detail = "not_processed"]]
           ELSE IF n = 1
           THEN analysis' = [analysis EXCEPT
                    !.response = [answer EXCEPT !.detail = "in_progress"]]
           ELSE IF n > 1
           THEN analysis' = [analysis EXCEPT
                    !.response = [answer EXCEPT !.detail = "raised"]]
           ELSE analysis' = [analysis EXCEPT
                    !.response = [answer EXCEPT !.detail = "accepted"],
                    !.rows = Append(@, [document_id |-> document_id,
                                        status |-> "pending"]),
                    !.runs = Append(@, [document_id |-> document_id,
                                        pc |-> "added", row |-> 0])]
    /\ UNCHANGED exceptAnalysis

\* extract_pois, poi_extractor.py lines 111-154: the run loads the document
\* and its chunks, raises when there are none, and otherwise commits an
\* Analysis of its own with status processing.
RunLoads(r) ==
    /\ analysis.pc = "on"
    /\ r \in 1..Len(analysis.runs)
    /\ analysis.runs[r].pc = "added"
    /\ IF analysis.documents[analysis.runs[r].document_id].has_chunks
       THEN analysis' = [analysis EXCEPT
                !.rows = Append(@, [document_id |-> analysis.runs[r].document_id,
                                    status |-> "processing"]),
                !.runs[r].pc = "extracting",
                !.runs[r].row = Len(analysis.rows) + 1]
       ELSE analysis' = [analysis EXCEPT !.runs[r].pc = "failed"]
    /\ UNCHANGED exceptAnalysis

\* extract_pois, lines 156-213: the points of interest and the summary are
\* saved and the run's Analysis is completed.
RunCompletes(r) ==
    /\ analysis.pc = "on"
    /\ r \in 1..Len(analysis.runs)
    /\ analysis.runs[r].pc = "extracting"
    /\ analysis' = [analysis EXCEPT
           !.rows[analysis.runs[r].row].status = "completed",
           !.runs[r].pc = "completed"]
    /\ UNCHANGED exceptAnalysis

\* extract_pois, lines 215-220, and run_analysis_background, lines 26-36:
\* the generation or the parsing raises; the run's Analysis is failed and
\* the exception logged.
RunFails(r) ==
    /\ analysis.pc = "on"
    /\ r \in 1..Len(analysis.runs)
    /\ analysis.runs[r].pc = "extracting"
    /\ analysis' = [analysis EXCEPT
           !.rows[analysis.runs[r].row].status = "failed",
           !.runs[r].pc = "failed"]
    /\ UNCHANGED exceptAnalysis

\* Every document is there, completed or still processing, with or without
\* chunks; no analysis has been asked for.
AnalysisInit ==
    /\ IngestIdle
    /\ chat = Off
    /\ cite = Off
    /\ store = Off
    /\ queries = Off
    /\ scx = Off
    /\ uploads = Off
    /\ processor = Off
    /\ analysis \in
          {[pc |-> "on", documents |-> docs, rows |-> <<>>, runs |-> <<>>,
            response |-> [document_id |-> 0, detail |-> "none"]] :
              docs \in [Docs -> [status : {COMPLETED, PROCESSING},
                                 has_chunks : BOOLEAN]]}

AnalysisNext ==
    \/ \E d \in Docs : start_analysis(d)
    \/ \E r \in 1..MaxRuns : RunLoads(r)
    \/ \E r \in 1..MaxRuns : RunCompletes(r)
    \/ \E r \in 1..MaxRuns : RunFails(r)

AnalysisSpec == AnalysisInit /\ [][AnalysisNext]_vars

\* ------------------------------------------------------- specification
\* The process starts: the queue is empty, the sweep is scheduled, and the
\* database holds what the previous process left (documents 1..n, each
\* pending or processing, or none at all).
Init ==
    /\ status \in [Docs -> {ABSENT, PENDING, PROCESSING}]
    /\ \A d, e \in Docs : (e < d /\ status[e] = ABSENT) => status[d] = ABSENT
    /\ error_message = [d \in Docs |-> FALSE]
    /\ chunks = {}
    /\ file = [d \in Docs |-> FileOf(d)]
    /\ queue = <<>>
    /\ processing = FALSE
    /\ current_document_id = 0
    /\ worker = [w \in Workers |-> IdleWorker]
    /\ tasks = {}
    /\ sweep = [pc |-> "sleeping", list |-> <<>>, found |-> {}]
    /\ request = NoRequest
    /\ jobs = <<>>
    /\ chat = Off
    /\ cite = Off
    /\ store = Off
    /\ LaterOff

Next ==
    \/ \E w \in Workers : ProcessQueueStart(w)
    \/ \E w \in Workers : AfterSleep(w)
    \/ \E w \in Workers : LoadDocument(w)
    \/ \E w \in Workers : MarkProcessing(w)
    \/ \E w \in Workers : StartStream(w)
    \/ \E w \in Workers : ResumeOldest(w)
    \/ \E w \in Workers : ResumeGather(w)
    \/ \E w \in Workers : ResumeInline(w)
    \/ \E w \in Workers : MarkCompleted(w)
    \/ \E w \in Workers : FailCommit(w)
    \/ \E w \in Workers : mark_document_failed(w)
    \/ \E t \in tasks : EmbedAndSave(t)
    \/ \E t \in tasks : EmbedFails(t)
    \/ \E d \in Docs : UploadCommit(d)
    \/ UploadEnqueue
    \/ \E d \in Docs : ReprocessRead(d)
    \/ ReprocessRefuse
    \/ ReprocessCommit
    \/ SweepQuery
    \/ SweepRequeue

Spec == Init /\ [][Next]_vars

\* A restart with every document id taken by a document the previous
\* process left pending or processing, the last of them over the page
\* limit; no upload is made (there is no free id).
LimitInit ==
    /\ status \in [Docs -> {PENDING, PROCESSING}]
    /\ error_message = [d \in Docs |-> FALSE]
    /\ chunks = {}
    /\ file = [d \in Docs |-> IF d = MaxDocs THEN HugeFile ELSE FileOf(d)]
    /\ queue = <<>>
    /\ processing = FALSE
    /\ current_document_id = 0
    /\ worker = [w \in Workers |-> IdleWorker]
    /\ tasks = {}
    /\ sweep = [pc |-> "sleeping", list |-> <<>>, found |-> {}]
    /\ request = NoRequest
    /\ jobs = <<>>
    /\ chat = Off
    /\ cite = Off
    /\ store = Off
    /\ LaterOff

LimitNext ==
    \/ \E w \in Workers : ProcessQueueStart(w)
    \/ \E w \in Workers : AfterSleep(w)
    \/ \E w \in Workers : LoadDocument(w)
    \/ \E w \in Workers : MarkProcessing(w)
    \/ \E w \in Workers : StartStream(w)
    \/ \E w \in Workers : ResumeOldest(w)
    \/ \E w \in Workers : ResumeGather(w)
    \/ \E w \in Workers : ResumeInline(w)
    \/ \E w \in Workers : MarkCompleted(w)
    \/ \E w \in Workers : FailCommit(w)
    \/ \E w \in Workers : mark_document_failed(w)
    \/ \E t \in tasks : EmbedAndSave(t)
    \/ \E t \in tasks : EmbedFails(t)
    \/ \E d \in Docs : ReprocessRead(d)
    \/ ReprocessRefuse
    \/ ReprocessCommit
    \/ SweepQuery
    \/ SweepRequeue

LimitSpec == LimitInit /\ [][LimitNext]_vars

\* The event loop runs a task that is ready, and every call to the
\* embedding capability returns or raises: as long as a worker or a batch
\* can take a step, one of them does.
WorkerStep(w) ==
    \/ ProcessQueueStart(w) \/ AfterSleep(w) \/ LoadDocument(w)
    \/ MarkProcessing(w) \/ StartStream(w) \/ ResumeOldest(w)
    \/ ResumeGather(w) \/ ResumeInline(w) \/ MarkCompleted(w)
    \/ FailCommit(w) \/ mark_document_failed(w)
BatchStep == \E t \in tasks : EmbedAndSave(t) \/ EmbedFails(t)

FairSpec ==
    /\ Spec
    /\ WF_vars((\E w \in Workers : WorkerStep(w)) \/ BatchStep)

\* ------------------------------------------------------------- claims
JobIds      == 1..Len(jobs)
InLoop(w)   == worker[w].pc \notin {"idle", "created"}
InJob(w)    == worker[w].pc \notin {"idle", "created", "sleep"}
RowsOf(d)   == {r \in chunks : r.doc = d}

\* C1: at most one _process_queue loop is active and at most one job is
\* between its dequeue and its end, under every interleaving.
C1_SingleFlight ==
    /\ Cardinality({w \in Workers : InLoop(w)}) <= 1
    /\ Cardinality({w \in Workers : InJob(w)}) <= 1
    /\ Cardinality({j \in JobIds : jobs[j].st = "running"}) <= 1

\* C1 witness: a job is running while a second _process_queue task exists.
C1_Witness ==
    \E w, v \in Workers : InJob(w) /\ worker[v].pc = "created"

\* C2: a job enqueued after another one is not started before the earlier
\* one has ended with its document's status set to completed or failed.
C2_StartsAfterPredecessorDone ==
    \A i, j \in JobIds :
        (i < j /\ jobs[j].st # "queued") =>
            /\ jobs[i].st = "ended"
            /\ jobs[i].end_status \in {COMPLETED, FAILED}

\* C2 witness: the job of a second document has been started after the job
\* of a first one.
C2_Witness ==
    \E i, j \in JobIds :
        i < j /\ jobs[i].doc # jobs[j].doc /\ jobs[j].st = "running"

\* C3: a job one of whose embedding batches failed never ends with the
\* document completed.
C3_BatchFailureFailsJob ==
    \A j \in JobIds : jobs[j].batch_failed => jobs[j].result # "completed"

\* C4: the chunk_index values persisted for a completed document are
\* 0..n-1, each once.  A row stands for the indexes lo..hi-1 of one batch:
\* no two rows overlap (no duplicate) and every row starts at 0 or where
\* another one ends (no gap).
C4_ContiguousChunkIndex ==
    \A d \in Docs : status[d] = COMPLETED =>
        /\ \A r, q \in RowsOf(d) : r # q => (r.hi <= q.lo \/ q.hi <= r.lo)
        /\ \A r \in RowsOf(d) : r.lo = 0 \/ \E q \in RowsOf(d) : q.hi = r.lo

\* C5: a batch task in flight belongs to the job that is running: none
\* outlives its job.
C5_NoBatchOutlivesJob ==
    \A t \in Running(tasks) : jobs[t.job].st = "running"

\* C6: at most PARALLEL_BATCHES embedding batches are in flight.
C6_InFlightBounded ==
    Cardinality(Running(tasks)) <= PARALLEL_BATCHES

C8_FailureKeepsChunks ==
    [][\A w \in Workers :
          (worker[w].pc \in {"fail_commit", "mark_failed"} /\ worker'[w] # worker[w])
              => chunks' = chunks]_vars

\* C8 witness: a failed job whose document is failed and has rows committed
\* by that job.
C8_Witness ==
    \E j \in JobIds :
        /\ jobs[j].result = "failed"
        /\ status[jobs[j].doc] = FAILED
        /\ \E r \in chunks : r.job = j

\* C9: once the sweep is over, every document it found pending or
\* processing has been added to the queue exactly once in this process
\* lifetime: once by the sweep and not by anything before it.
C9_RequeuedExactlyOnce ==
    sweep.pc = "done" =>
        \A d \in sweep.found :
            /\ Cardinality({j \in JobIds : jobs[j].doc = d /\ jobs[j].by = "sweep"}) = 1
            /\ \A i, j \in JobIds :
                  (jobs[j].doc = d /\ jobs[j].by = "sweep" /\ i < j) => jobs[i].doc # d

\* The request's answer: a reprocess request that ends in this step.
ReprocessEnds == request.kind = "reprocess" /\ request' = NoRequest
Requeued(d) ==
    /\ status'[d] = PENDING
    /\ ~error_message'[d]
    /\ queue' = Append(queue, [document_id |-> d, job |-> Len(jobs')])
    /\ Len(jobs') = Len(jobs) + 1

ByReprocess(d) == ReprocessEnds /\ request.doc = d
ByRecovery(d) ==
    /\ sweep.pc = "requeue" /\ sweep' # sweep
    /\ Head(sweep.list).doc = d
    /\ \A j \in JobIds : jobs[j].doc # d

\* C11: every change of a document's status is pending->processing,
\* processing->completed, processing->failed, or failed/completed->pending
\* by an explicit reprocess request (the creation of the row, and the
\* sweep's reset of a document left over by the previous process, set
\* aside).
C11_LegalTransitions ==
    [][\A d \in Docs :
          (status'[d] # status[d] /\ status[d] # ABSENT /\ ~ByRecovery(d)) =>
              \/ status[d] = PENDING /\ status'[d] = PROCESSING
              \/ status[d] = PROCESSING /\ status'[d] \in {COMPLETED, FAILED}
              \/ /\ status[d] \in {FAILED, COMPLETED}
                 /\ status'[d] = PENDING
                 /\ ByReprocess(d)]_vars

\* C12: jobs are started in the order in which add_document appended them:
\* a job is started only when every job appended before it has been, and
\* the queue holds the jobs not yet started in the order of their appending.
C12_StartedInFifoOrder ==
    /\ \A i, j \in JobIds :
          (i < j /\ jobs[j].st # "queued") => jobs[i].st # "queued"
    /\ \A k \in 1..Len(queue) :
          queue[k].job = Cardinality({j \in JobIds : jobs[j].st # "queued"}) + k

\* C12 witness: a job appended while another job was running waits in the
\* queue behind it.  (The document of the running job is pending again
\* after the job had marked it processing: the reprocess request that
\* appended the second job came while the first was running.)
C12_Witness ==
    \E w \in Workers, j \in JobIds :
        /\ InJob(w) /\ worker[w].pc \notin {"load", "mark_processing"}
        /\ worker[w].job < j
        /\ jobs[j].st = "queued" /\ jobs[j].by = "reprocess"
        /\ jobs[j].doc = worker[w].doc
        /\ status[worker[w].doc] = PENDING

\* C13: a document of more than max_pages pages is rejected before a page
\* is streamed: its job never gets past page 0 nor creates a chunk, no
\* batch is embedded and no row persisted for it, and the job ends failed
\* with the document's status failed.
C13_TooLargeRejected ==
    \A d \in Docs : file[d].page_count > max_pages =>
        /\ RowsOf(d) = {}
        /\ \A t \in tasks : t.doc # d
        /\ \A w \in Workers :
              worker[w].doc = d => (worker[w].page = 0 /\ worker[w].chunk_index = 0)
        /\ \A j \in JobIds : (jobs[j].doc = d /\ jobs[j].st = "ended") =>
              (jobs[j].result = "failed" /\ jobs[j].end_status = FAILED)

\* C13 witness: the job of a document over the limit has ended.
C13_Witness ==
    \E j \in JobIds :
        /\ file[jobs[j].doc].page_count > max_pages
        /\ jobs[j].st = "ended" /\ status[jobs[j].doc] = FAILED

\* The characters of x.
Chars(x) == {x[i] : i \in 1..Len(x)}

\* C14: in the streaming path nothing of a reasoning block is yielded:
\* neither the text between an opening sentinel and its closing sentinel
\* ("s") nor a character of a sentinel, however the text is split into
\* fragments.  (Answer text holds only "a" and blanks.)
C14_NoReasoningYielded ==
    chat.path = "stream" => Chars(chat.yielded) \cap ({"s"} \cup Chars(OPEN) \cup Chars(CLOSE)) = {}

\* C15: the text that follows an opening sentinel whose closing sentinel
\* never arrives ("u") is never yielded, at end of stream included.
C15_UnclosedBlockSuppressed ==
    chat.path = "stream" => "u" \notin Chars(chat.yielded)

\* C16: what the caller has been given when the stream has ended does not
\* depend on how the text was split into fragments: it is what the filter
\* gives when the whole text comes as one fragment.
C16_RechunkingInvariant ==
    (chat.path = "stream" /\ chat.pc \in {"save", "done"}) =>
        chat.yielded = FinalFlush(FilterChunk(FilterStart, chat.raw_response)).yielded

\* A message of this role is committed.
Persisted(role) ==
    \E i \in 1..Len(chat.messages) : chat.messages[i].role = role

\* C17: in both paths the user message is committed before generation
\* begins and the assistant message only after it has completed; after a
\* failed generation or an abandoned stream the user message is recorded
\* and no assistant message is.
C17_UserBeforeAssistantAfter ==
    /\ chat.pc \in {"generating", "save", "done", "failed", "abandoned"}
          => Persisted("user")
    /\ Persisted("assistant") => chat.pc = "done"

\* The pages the markers of the mandated format refer to.
MandatedPages(ms) ==
    UNION {IF ms[i].hi > ms[i].lo THEN ms[i].lo..ms[i].hi ELSE {ms[i].lo} :
              i \in {k \in 1..Len(ms) : ms[k].form = "mandated"}}

\* C18: citation extraction returns exactly the candidate citations whose
\* page a marker of the mandated format refers to: for an answer with
\* [X - Page 3] and [X - Page 7] and candidates for pages 1, 3, 5, 7, the
\* citations of pages 3 and 7.
C18_ExtractsMandatedMarkers ==
    cite.pc = "returned" =>
        cite.relevant_citations =
            SelectSeq(cite.available_citations,
                      LAMBDA c : c.page_number \in MandatedPages(cite.markers))

\* C19: search(q, d, k) returns at most k results, ordered by non-increasing
\* score, and every returned chunk belongs to document d.
C19_SearchTopK ==
    (store.pc = "returned" /\ store.call.op = "search") =>
        /\ Len(store.result) <= store.call.top_k
        /\ \A i \in 1..Len(store.result) :
              store.result[i].chunk.document_id = store.call.document_ids[1]
        /\ \A i \in 2..Len(store.result) :
              ~ScoreLess(store.result[i - 1].score, store.result[i].score)
C19_Witness ==
    /\ store.pc = "returned"
    /\ store.call.op = "search"
    /\ store.call.top_k = MaxTopK
    /\ Len(store.chunk_list) > MaxTopK
    /\ Len(store.result) = MaxTopK
    /\ ScoreLess(store.result[2].score, store.result[1].score)
    /\ \E m \in 1..Len(store.chunk_list) :
          /\ \A j \in 1..Len(store.result) : store.top_indices[j] # m
          /\ ScoreLess(Similarity(store.call.query_embedding,
                                  store.chunk_list[m].embedding),
                       store.result[2].score)

\* C20: among chunks with equal score, search and search_multi return the
\* chunk that comes earlier in the ranked chunk list first, and a chunk left
\* out at the top-k cut-off comes later in that list than every returned
\* chunk of the same score.
C20_TiesByChunkOrder ==
    store.pc = "returned" =>
        /\ \A i, j \in 1..Len(store.result) :
              (i < j /\ ScoreEqual(store.result[i].score,
                                   store.result[j].score))
                 => store.top_indices[i] < store.top_indices[j]
        /\ \A i \in 1..Len(store.result) :
              \A m \in 1..Len(store.chunk_list) :
                 (/\ \A j \in 1..Len(store.result) : store.top_indices[j] # m
                  /\ ScoreEqual(store.result[i].score,
                                Similarity(store.call.query_embedding,
                                           store.chunk_list[m].embedding)))
                    => store.top_indices[i] < m

\* C21: a chunk whose embedding has zero norm is ranked with score 0, and
\* when every chunk of the ranked list has a zero-norm embedding, search and
\* search_multi return an empty result.
ZeroNorm(e) == Dot(e, e) = 0
C21_ZeroNormChunks ==
    store.pc = "returned" =>
        /\ \A i \in 1..Len(store.result) :
              ZeroNorm(store.result[i].chunk.embedding)
                 => store.result[i].score.num = 0
        /\ (/\ store.chunk_list # <<>>
            /\ \A m \in 1..Len(store.chunk_list) :
                  ZeroNorm(store.chunk_list[m].embedding))
              => store.result = <<>>

\* C22: search_multi(q, S, k) returns at most k results; every returned
\* chunk belongs to a document of S and is among the results search(q, d, k)
\* can return for its document d, whatever documents of S were cached.
SearchCanReturn(c, query_embedding, top_k) ==
    /\ c.document_id \in DOMAIN store.embedding_cache
    /\ \E r \in Ranked(store.embedding_cache[c.document_id],
                       query_embedding, top_k) :
          \E i \in 1..Len(r.result) : r.result[i].chunk = c
C23_LoadFailurePropagates ==
    store.pc = "returned" => store.failed_docs = {}

\* C24: a preload of a document that follows at once a completed preload of
\* the same document selects no rows from storage, populates nothing and
\* reports that the document was already cached (returns false), also for a
\* document without embedded chunks.
SecondPreload ==
    /\ store.pc = "returned"
    /\ store.call.op = "preload_cache"
    /\ store.previous = store.call
C24_SecondPreloadLoadsNothing ==
    SecondPreload =>
        /\ store.queried = {}
        /\ ~store.value
        /\ store.response = "already_cached"

\* C25: the vector cache is never evicted: a document that is cached stays
\* cached, with every step of search, search_multi, preload, ingestion and
\* document deletion.
C25_NeverEvicted ==
    [][store.pc # "off" =>
          \A d \in DOMAIN store.embedding_cache :
             d \in DOMAIN store'.embedding_cache]_vars
C25_Witness ==
    \E d \in DOMAIN store.embedding_cache :
       /\ d \notin store.documents
       /\ store.pc = "returned"
       /\ store.call.op = "search"
       /\ store.call.document_ids = <<d>>
       /\ store.cached_docs = <<d>>
       /\ Len(store.result) = 1

\* C26: with queries populating the cache at once, every entry of the cache
\* comes from a single build (a chunk list that is not empty, of rows of
\* the document, and a matrix with the embedding of chunk i in row i), and
\* every query that did not fail itself gets its result.
SingleBuild(d, entry) ==
    /\ entry.chunks # <<>>
    /\ Len(entry.chunk_embeddings) = Len(entry.chunks)
    /\ \A i \in 1..Len(entry.chunks) :
          /\ entry.chunks[i].document_id = d
          /\ entry.chunk_embeddings[i] = entry.chunks[i].embedding
    /\ \A i, j \in 1..Len(entry.chunks) :
          entry.chunks[i] = entry.chunks[j] => i = j
C26_ConcurrentPopulation ==
    queries # Off =>
        /\ \A d \in DOMAIN queries.embedding_cache :
              SingleBuild(d, queries.embedding_cache[d])
        /\ \A c \in Callers :
              queries.task[c].pc = "returned" =>
                 /\ Len(queries.task[c].result) = 1
                 /\ (/\ queries.task[c].op = "search"
                     /\ SelectEmbedded(queries.rows,
                                       queries.task[c].document_ids[1])
                           # {<<>>})
                       => Len(queries.task[c].result[1]) = 1
C26_Witness ==
    /\ queries # Off
    /\ \A c \in Callers :
          /\ queries.task[c].pc = "returned"
          /\ queries.task[c].uncached_docs = <<1>>
          /\ queries.task[c].loaded[1].state = "ok"
    /\ queries.task[1].op = "search"
    /\ queries.task[2].op = "preload_cache"
    /\ queries.task[1].loaded # queries.task[2].loaded
    /\ queries.embedding_cache[1].chunks = queries.task[1].loaded[1].chunk_list

\* C27: a generation without content is retried like a failed one, up to
\* 3 attempts: the batch call and the streaming call return only with
\* content, and raise only after the third attempt.
C27_EmptyIsRetried ==
    /\ scx.pc = "returned" => scx.result = "content"
    /\ scx.pc = "raised" => scx.attempt = max_retries

\* C28: no two Document rows share a content_hash, also when the same
\* content is uploaded by requests served at once.
C28_UniqueContentHash ==
    uploads # Off =>
        \A i, j \in 1..Len(uploads.documents) :
           uploads.documents[i].content_hash = uploads.documents[j].content_hash
              => i = j

\* The paragraphs of page n of the document being chunked.
ParagraphsOf(n) == split_into_paragraphs(processor.pages[n])

\* A 3-page document whose pages each hold one paragraph that fits in
\* chunk_size while no two of them fit together.
ThreeShortPages ==
    /\ Len(processor.pages) = 3
    /\ \A n \in 1..3 :
          /\ Len(ParagraphsOf(n)) = 1
          /\ Len(ParagraphsOf(n)[1]) <= processor.cfg.chunk_size
    /\ \A n, m \in 1..3 :
          n # m => Len(ParagraphsOf(n)[1]) + Len(ParagraphsOf(m)[1])
                       > processor.cfg.chunk_size

\* C29: a 3-page document of one short paragraph per page, each fitting in
\* chunk_size and no two fitting together, yields exactly 3 chunks with
\* chunk_index 0, 1, 2 and page_number 1, 2, 3.
C29_OneChunkPerPage ==
    (processor.pc = "done" /\ ThreeShortPages) =>
        /\ Len(processor.chunks) = 3
        /\ \A i \in 1..3 :
              /\ processor.chunks[i].chunk_index = i - 1
              /\ processor.chunks[i].page_number = i

\* C30: a paragraph longer than chunk_size is split whatever the running
\* buffer holds when it arrives: no chunk emitted contains the whole of it.
C30_OversizedIsSplit ==
    processor.pc = "done" =>
        \A n \in 1..Len(processor.pages) :
            \A k \in 1..Len(ParagraphsOf(n)) :
                Len(ParagraphsOf(n)[k]) > processor.cfg.chunk_size =>
                    \A i \in 1..Len(processor.chunks) :
                        Find(processor.chunks[i].content,
                             ParagraphsOf(n)[k]) = 0

\* C31: every chunk the chunker emits, the final trailing chunk included,
\* has a content of at most chunk_size characters.
C31_ChunksBounded ==
    processor # Off =>
        \A i \in 1..Len(processor.chunks) :
            Len(processor.chunks[i].content) <= processor.cfg.chunk_size

\* C32: a page whose text is empty or only whitespace emits no chunk and
\* leaves the carried overlap buffer and the next chunk index as they were.
C32_BlankPageFrame ==
    [][(/\ processor.pc = "pages"
        /\ processor'.pages_processed = processor.pages_processed + 1
        /\ ~NonBlank(processor.pages[processor'.pages_processed]))
       => /\ processor'.chunks = processor.chunks
          /\ processor'.overlap_text = processor.overlap_text
          /\ processor'.chunk_index = processor.chunk_index]_vars

\* A blank page has been read with text in the buffer, and the text of the
\* page before it is in the first chunk emitted while reading the page
\* after it.
C32_Witness ==
    /\ processor.pc = "pages"
    /\ processor.pages_processed = 3
    /\ NonBlank(processor.pages[1])
    /\ ~NonBlank(processor.pages[2])
    /\ NonBlank(processor.pages[3])
    /\ processor.chunks # <<>>
    /\ processor.chunks[1].page_number = 3
    /\ Find(processor.chunks[1].content, ParagraphsOf(1)[1]) = 1

\* The characters of a text that are not whitespace.
RECURSIVE Visible(_)
Visible(x) ==
    IF x = <<>> THEN <<>>
    ELSE (IF Head(x) \in Whitespace THEN <<>> ELSE <<Head(x)>>)
         \o Visible(Tail(x))

\* The texts of a sequence one after the other.
RECURSIVE Joined(_)
Joined(texts) ==
    IF texts = <<>> THEN <<>> ELSE Head(texts) \o Joined(Tail(texts))

\* A text without the characters it has already shown: in a document that
\* uses every letter once, what a chunk repeats is its overlap.
RECURSIVE WithoutOverlaps(_)
WithoutOverlaps(x) ==
    IF x = <<>> THEN <<>>
    ELSE LET front == WithoutOverlaps(SubSeq(x, 1, Len(x) - 1))
             last == x[Len(x)]
         IN  IF \E i \in 1..Len(front) : front[i] = last
             THEN front ELSE Append(front, last)

ChunkContents == [i \in 1..Len(processor.chunks) |-> processor.chunks[i].content]

\* C33: the chunker loses no text: the chunks in chunk_index order, the
\* final chunk of the buffer left included, give back the text of the pages
\* in reading order once overlaps and whitespace are removed.
C33_NoTextLost ==
    processor.pc = "done" =>
        /\ \A i \in 1..Len(processor.chunks) :
              processor.chunks[i].chunk_index = i - 1
        /\ WithoutOverlaps(Visible(Joined(ChunkContents)))
               = Visible(Joined(processor.pages))

\* A document chunked into three chunks or more, one of them repeating
\* text of the one before it, the last one being the buffer left.
C33_Witness ==
    /\ processor.pc = "done"
    /\ Len(processor.chunks) >= 3
    /\ NonBlank(processor.overlap_text)
    /\ processor.chunks[Len(processor.chunks)].content
           = Strip(processor.overlap_text)
    /\ \E i \in 1..(Len(processor.chunks) - 1) :
          processor.chunks[i + 1].content[1] =
              LastChars(processor.chunks[i].content, processor.cfg.chunk_overlap)[1]
    /\ \E n \in 1..Len(processor.pages) : \E k \in 1..Len(ParagraphsOf(n)) :
          Len(ParagraphsOf(n)[k]) > processor.cfg.chunk_size

\* a can be had from b by leaving characters out, the rest staying in order.
RECURSIVE IsSubsequence(_, _)
IsSubsequence(a, b) ==
    IF a = <<>> THEN TRUE
    ELSE IF b = <<>> THEN FALSE
    ELSE IF Head(a) = Head(b) THEN IsSubsequence(Tail(a), Tail(b))
    ELSE IsSubsequence(a, Tail(b))

\* The text outside the reasoning blocks, a block that is never closed
\* running to the end of the text.
RECURSIVE OutsideBlocks(_)
OutsideBlocks(x) ==
    IF Find(x, OPEN) = 0 THEN x
    ELSE Before(x, OPEN) \o
         (IF Find(After(x, OPEN), CLOSE) = 0 THEN <<>>
          ELSE OutsideBlocks(After(After(x, OPEN), CLOSE)))

\* C34: the increments yielded by the streaming filter are, one after the
\* other, an in-order subsequence of the raw generation stream, and every
\* character outside a reasoning block is among them, however the stream
\* is cut into fragments.
C34_OrderPreserved ==
    (chat # Off /\ chat.path = "stream" /\ chat.pc \in {"save", "done"}) =>
        /\ IsSubsequence(chat.yielded, chat.raw_response)
        /\ IsSubsequence(OutsideBlocks(chat.raw_response), chat.yielded)

\* C35: the fragments delivered to the consumer of chat_completion_stream
\* come from one generation attempt: fragments of an attempt that failed
\* are never followed by fragments of a restarted attempt.
C35_SingleAttemptDelivered ==
    (scx # Off /\ scx.op = "chat_completion_stream") =>
        \A i, j \in 1..Len(scx.delivered) :
            scx.delivered[i] = scx.delivered[j]

\* C36: a completed document is never ingested again: once its status is
\* completed no step changes the status or the chunks persisted for it.
C36_CompletedIsFinal ==
    [][\A d \in Docs :
          status[d] = COMPLETED =>
              /\ status'[d] = COMPLETED
              /\ {r \in chunks' : r.doc = d} = RowsOf(d)]_vars

\* C37: the cached entry of a completed document holds the chunks persisted
\* with an embedding for it, whatever calls cached it and when, so that
\* every search over the document ranks all of them.
C37_CacheIsCurrent ==
    store # Off =>
        \A d \in (store.completed \cap store.documents)
                    \cap DOMAIN store.embedding_cache :
            {store.embedding_cache[d][i] :
                 i \in 1..Len(store.embedding_cache[d])}
              = {r \in RowsOfDocument(store.rows, d) : r.embedding # None}

\* C38: a document is never scheduled twice at once: its id occurs at most
\* once among the queued jobs and the job being processed.
C38_ScheduledOnce ==
    \A d \in Docs :
        Cardinality({k \in 1..Len(queue) : queue[k].document_id = d})
          + Cardinality({w \in Workers : InJob(w) /\ worker[w].doc = d}) <= 1

\* C39: the assistant message persisted by the streaming path holds no
\* sentinel and no reasoning text, and is the text that was streamed to the
\* caller up to surrounding whitespace, also when a block was never closed.
C39_PersistedIsStreamed ==
    (chat # Off /\ chat.path = "stream" /\ chat.pc = "done") =>
        LET content == chat.messages[Len(chat.messages)].content
        IN  /\ Find(content, OPEN) = 0
            /\ Find(content, CLOSE) = 0
            /\ \A i \in 1..Len(content) : content[i] \notin {"s", "u"}
            /\ Strip(content) = Strip(chat.yielded)

\* C40: once the background analysis runs of a document have ended,
\* completed or failed, no Analysis of the document is still pending or
\* processing, so that a later start_analysis request for it is accepted.
C40_AnalysisLeavesInProgress ==
    analysis # Off =>
        \A d \in Docs :
            (/\ \E r \in 1..Len(analysis.runs) : analysis.runs[r].document_id = d
             /\ \A r \in 1..Len(analysis.runs) :
                   analysis.runs[r].document_id = d =>
                       analysis.runs[r].pc \in {"completed", "failed"})
              => InProgress(analysis.rows, d) = {}

====
